---- MODULE Spec2Model ----
(***************************************************************************)
(* A model of harvest-notion-sync: the hierarchical aggregation engine     *)
(* (NotionCard), the request scheduler (limits.ts), the memoizing caches   *)
(* (notion.ts, harvest.ts) and the liveness watchdog (heartbeat.ts).       *)
(*                                                                         *)
(* Each component has its own specification over its own variables; the    *)
(* variables of the other components stay at their initial values.         *)
(***************************************************************************)
EXTENDS Integers, Sequences, FiniteSets, TLC

(***************************************************************************)
(* Bounds of the model.                                                    *)
(***************************************************************************)
\* task records of the workspace database
NumNodes == 3
\* time entries returned by one poll (one update chain each)
MaxEntries == 2
\* poll iterations (passes) explored
MaxPolls == 2
\* how often one chain of nested update calls may enter a node again
MaxReentry == 1

\* workspace credentials, each with its own read queue (the program has 4)
NumClients == 2
\* clock ticks in one wait of a read queue
WaitTicks == 1
\* clock ticks an entry of a cache lives
TTLTicks == 2
\* lookups made in a cache
MaxLookups == 3
\* the clock stops here
MaxTime == 3
\* read permits requested directly (not by a write)
MaxReads == 5
\* write operations submitted
MaxWrites == 2

Nodes == 1..NumNodes

\* Number.parseFloat of a text that holds no number
NaN == -1

\* no card / no key
None == << >>

(***************************************************************************)
(* Sequence helpers.                                                       *)
(***************************************************************************)
RECURSIVE SumOver(_, _)
SumOver(S, f) ==
  IF S = {} THEN 0
  ELSE LET x == CHOOSE y \in S : TRUE IN f[x] + SumOver(S \ {x}, f)

Count(x, s) == Cardinality({i \in DOMAIN s : s[i] = x})

(***************************************************************************)
(* The aggregation engine: state.                                          *)
(*                                                                         *)
(* world      the remote data a run works on, fixed during the run: the    *)
(*            "Parent task" relation of every record, the hours the        *)
(*            time-tracking provider holds for every record, and the       *)
(*            records the time entries of a poll match                     *)
(* timeSpent  the number at the head of each record's "Time Spent" text    *)
(* allCards   NotionCard.allCards: record id -> the registered instance    *)
(* cards      every NotionCard instance constructed so far                 *)
(* calls      the async calls (getOrCreate, update) that are suspended     *)
(* writeQueue the updateHours calls waiting for the write slot, in order   *)
(* poll       the number of poll iterations started                        *)
(* writes     the number of updateHours calls issued in this poll          *)
(***************************************************************************)
VARIABLES world, timeSpent, allCards, cards, calls, writeQueue, poll, writes

cardVars == <<world, timeSpent, allCards, cards, calls, writeQueue, poll, writes>>

(***************************************************************************)
(* The request scheduler: state.                                           *)
(*                                                                         *)
(* now        the clock, in ticks                                          *)
(* items      the waiting permit requests of each read queue, in the       *)
(*            order the queue will grant them                              *)
(* timer      per read queue: the ticks left until its next tick, or Idle  *)
(* queueIndex the read queue the next notionRateLimit call goes to         *)
(* reqs       every permit request made so far, in submission order        *)
(* nGrants    the number of permits granted so far                         *)
(* writeItems the write operations waiting in notionWriteQueue             *)
(* ops        every write operation submitted so far                       *)
(***************************************************************************)
VARIABLES now, items, timer, queueIndex, reqs, nGrants, writeItems, ops

limitVars == <<now, items, timer, queueIndex, reqs, nGrants, writeItems, ops>>

(***************************************************************************)
(* The caches in front of getPage, queryDatabase and getHoursByName: state *)
(* of one key of one cache.                                                *)
(*                                                                         *)
(* namespace  the cache: "page", "database" or "hours"                     *)
(* cache      the entry of the key: None, or the promise kept and the time *)
(*            it was set                                                   *)
(* runs       the runs of the uncached function so far, each "flight",     *)
(*            "ok" or "err"                                                *)
(* lookups    the calls of the cached function so far                      *)
(* pageWrites the successful writes of the page so far                     *)
(* writtenAt  the time of the latest of them, Idle before the first        *)
(***************************************************************************)
VARIABLES namespace, cache, runs, lookups, pageWrites, writtenAt

cacheVars == <<namespace, cache, runs, lookups, pageWrites, writtenAt>>

(***************************************************************************)
(* The watchdog and the loops it watches: state.  Time is counted in check *)
(* intervals of the watchdog.                                              *)
(*                                                                         *)
(* loop            where realtimeLoop is: "polling" (fetching entries and  *)
(*                 updating their cards), "waiting" (for the rest of its   *)
(*                 interval), "blocked" (awaiting a promise that never     *)
(*                 settles) or "ended" (it threw)                          *)
(* bulk            where runScheduledBulkUpdate is: "running" or "waiting" *)
(* heartbeatAge    the check intervals since lastHeartbeat                 *)
(* checkIntervalId whether the watchdog's interval is set                  *)
(* checkDue        whether the callback of the interval is due             *)
(* exitCode        NoExit while the process runs, then its exit code       *)
(***************************************************************************)
VARIABLES loop, bulk, heartbeatAge, checkIntervalId, checkDue, exitCode

watchVars == <<loop, bulk, heartbeatAge, checkIntervalId, checkDue, exitCode>>

(***************************************************************************)
(* One iteration of realtimeLoop over its time entries: state.  One entry  *)
(* is followed through getOrCreate by name step by step; of the others     *)
(* only the end of their chains is kept.                                   *)
(*                                                                         *)
(* iteration  where realtimeLoop is: "waiting" (before its next poll),     *)
(*            "polling" (awaiting the chains of its entries) or "ended"    *)
(*            (it rejected)                                                *)
(* entry      the entry followed: whether a client record matches its      *)
(*            project (clients), the task records whose name matches       *)
(*            (named), where its chain is (pc), the card getOrCreate       *)
(*            returned (result, 0 for null), the record it registered      *)
(*            (created) and the records it wrote to (wrote)                *)
(* others     where the chains of the other entries are                    *)
(* registry   the ids in allCards                                          *)
(* markers    the records that hold the error marker                       *)
(***************************************************************************)
VARIABLES iteration, entry, others, registry, markers

pollVars == <<iteration, entry, others, registry, markers>>

(***************************************************************************)
(* One call of withRetry: state.                                           *)
(*                                                                         *)
(* provider   whose withRetry runs: "notion" (notion.ts) or "harvest"      *)
(*            (the time-tracking wrapper, which races each attempt against *)
(*            a timeout of its own)                                        *)
(* attempt    the loop variable                                            *)
(* rpc        "call" (an attempt is awaited), "delay" (the wait before the *)
(*            next attempt), "returned" or "raised"                        *)
(* tries      the outcome of every attempt made: "ok" with its result,     *)
(*            "timeout" or "error"                                         *)
(* delays     the waits made, each in units of baseDelay                   *)
(* returned   the result returned to the caller                            *)
(* raised     the attempt whose error was raised to the caller, or 0       *)
(* abandoned  the attempts that timed out and whose operation still runs   *)
(***************************************************************************)
VARIABLES provider, attempt, rpc, tries, delays, returned, raised, abandoned

retryVars == <<provider, attempt, rpc, tries, delays, returned, raised, abandoned>>

\* the records whose page does not match cardSchema
VARIABLES unparsable

parseVars == <<unparsable>>

(***************************************************************************)
(* One call of a name matcher of util.ts: state.  A name is the sequence   *)
(* of its characters.                                                      *)
(*                                                                         *)
(* nameA, nameB  the arguments                                             *)
(* matched       "pending" before the call, then "true" or "false"         *)
(***************************************************************************)
VARIABLES nameA, nameB, matched

matchVars == <<nameA, nameB, matched>>

\* the attempts after the first one that withRetry has sent for the read
\* requests: the request, the number of the attempt and its time
VARIABLES resent

sendVars == <<resent>>

(***************************************************************************)
(* The comparison at the end of one update: state.  Hours are counted in   *)
(* tenths of an hour.                                                      *)
(*                                                                         *)
(* localHours     the hours getHoursByName returned                        *)
(* childHours     the hours summed over the children                       *)
(* previousHours  the number parsed from "Time Spent"                      *)
(* decision       "pending", then "skip" or "write"                        *)
(* roundedHours   the hours written, NaN when none                         *)
(***************************************************************************)
VARIABLES localHours, childHours, previousHours, decision, roundedHours

compareVars == <<localHours, childHours, previousHours, decision, roundedHours>>

(***************************************************************************)
(* getHoursByName (harvest.ts): state.                                     *)
(*                                                                         *)
(* allClients   the names of the clients of the time tracker; the id of a  *)
(*              client is its place in the list                            *)
(* timeEntries  the time entries of the tracker: client id, notes, hours   *)
(*              in tenths                                                  *)
(* taskName, clientName  the options of the call                           *)
(* totalHours   the number returned in tenths, NaN before the call         *)
(***************************************************************************)
VARIABLES allClients, timeEntries, taskName, clientName, totalHours

hoursVars == <<allClients, timeEntries, taskName, clientName, totalHours>>

(***************************************************************************)
(* Records that are gone: state.                                           *)
(*                                                                         *)
(* deleted   the records whose page the workspace no longer has:           *)
(*           pages.retrieve answers 404 (object_not_found)                 *)
(* rejected  the paths of the calls that have thrown                       *)
(***************************************************************************)
VARIABLES deleted, rejected

goneVars == <<deleted, rejected>>

(***************************************************************************)
(* The last-progress timestamp (heartbeat.ts) and what touches it: state.  *)
(*                                                                         *)
(* wallClock       Date.now()                                              *)
(* lastHeartbeat   the timestamp                                           *)
(* writesInFlight  the updateHours calls that have not settled             *)
(* polling         whether realtimeLoop is in an iteration                 *)
(* lastEvent       what the program did last                               *)
(***************************************************************************)
VARIABLES wallClock, lastHeartbeat, writesInFlight, polling, lastEvent

beatVars == <<wallClock, lastHeartbeat, writesInFlight, polling, lastEvent>>

(***************************************************************************)
(* runScheduledBulkUpdate (harvest.ts): state.                             *)
(*                                                                         *)
(* bulkPc        where the bulk run is: "listing" (awaiting the entries),  *)
(*               "chunk" (awaiting the chains of a chunk), "ended" (it     *)
(*               returned) or "rejected" (it threw)                        *)
(* bulkEntries   the entries of the run                                    *)
(* bulkIndex     i of processBulkUpdate                                    *)
(* chunkPending  the chains of the chunk that have not settled             *)
(* bulkTimer     the ticks left of the timeout that starts the next run,   *)
(*               NoTimer when none is set                                  *)
(* bulkRuns      the runs started                                          *)
(* bulkActive    the runs started that have neither returned nor thrown    *)
(***************************************************************************)
VARIABLES bulkPc, bulkEntries, bulkIndex, chunkPending, bulkTimer, bulkRuns, bulkActive

bulkVars == <<bulkPc, bulkEntries, bulkIndex, chunkPending, bulkTimer, bulkRuns, bulkActive>>

(***************************************************************************)
(* warn (logging, part_005): state, for one message.                       *)
(*                                                                         *)
(* warnClock     Date.now()                                                *)
(* warnCoolDown  warnCoolDown.get(message) ?? 0                            *)
(* warnCalls     the calls of warn with the message, in the order they     *)
(*               were made: the update type, the time, whether the call    *)
(*               posts to the channel, and whether its posts are through   *)
(***************************************************************************)
VARIABLES warnClock, warnCoolDown, warnCalls

warnVars == <<warnClock, warnCoolDown, warnCalls>>

\* the hours writes of one record that have reached the workspace, in the
\* order they did: each is named by its place among the writes submitted,
\* which is the order in which update computed their totals
VARIABLES landed

raceVars == <<landed>>

(***************************************************************************)
(* The realtime loop in time (harvest.ts).                                 *)
(*                                                                         *)
(* pollClock        the time, in ticks                                     *)
(* loopPc           where realtimeLoop is: "sleeping" (no iteration        *)
(*                  running: before the first one, or awaiting the timer   *)
(*                  of the last), "permit" (the request for the updated    *)
(*                  entries awaits its permit), "listing" (the request is  *)
(*                  out), "chains" (the chains of its entries run) or      *)
(*                  "ended" (the iteration threw)                          *)
(* startedAt        when the current iteration started, NoTime before the  *)
(*                  first                                                  *)
(* activeIterations the iterations that started and have neither finished  *)
(*                  their chains nor thrown                                *)
(* lastCheck        the variable of that name                              *)
(* checkTime        updated_since of the current iteration's request       *)
(* issuedAt         when the current iteration's request went out          *)
(* prevIssuedAt     when the request of the iteration before went out      *)
(* updatedAt        when the time entry followed was updated, NoTime       *)
(*                  before                                                 *)
(* entryPolled      whether a poll has returned that update                *)
(***************************************************************************)
VARIABLES pollClock, loopPc, startedAt, activeIterations, lastCheck, checkTime,
          issuedAt, prevIssuedAt, updatedAt, entryPolled

loopVars ==
  <<pollClock, loopPc, startedAt, activeIterations, lastCheck, checkTime,
    issuedAt, prevIssuedAt, updatedAt, entryPolled>>

\* the parts of the state added after the records that are gone
finalVars == <<beatVars, bulkVars, warnVars, raceVars, loopVars>>

\* the parts of the state added after the comparison
lastVars == <<hoursVars, goneVars, finalVars>>

\* the parts of the state added before the timestamp
baseVars ==
  <<cardVars, limitVars, cacheVars, watchVars, pollVars, retryVars, parseVars,
    matchVars, sendVars, compareVars, hoursVars, goneVars>>

\* the parts of the state added last
moreVars == <<sendVars, compareVars, lastVars>>

\* the parts of the state added after the first four
extraVars == <<pollVars, retryVars, parseVars, matchVars, moreVars>>

vars == <<cardVars, limitVars, cacheVars, watchVars, extraVars>>

ParentIds(n) == world.parents[n]
\* "Sub-tasks" is the other side of the two-way "Parent task" relation
ChildIds(n) == {m \in Nodes : n \in world.parents[m]}

\* the relation graphs explored: a chain 1 -> 2 -> ... -> NumNodes of parent
\* links, with any one of the variations below
Line == [n \in Nodes |-> IF n < NumNodes THEN {n + 1} ELSE {}]
Star == [n \in Nodes |-> IF n < NumNodes THEN {NumNodes} ELSE {}]
SelfParent == [Line EXCEPT ![1] = @ \cup {1}]
Cycle == [Line EXCEPT ![NumNodes] = {1}]
Shortcut == [Line EXCEPT ![1] = @ \cup {NumNodes}]
Graphs == {Line, Star, SelfParent, Cycle, Shortcut}

RECURSIVE Ancestors(_, _, _)
\* the records reached from n over at most k parent links
Ancestors(parents, n, k) ==
  IF k = 0 THEN {}
  ELSE parents[n] \cup UNION {Ancestors(parents, p, k - 1) : p \in parents[n]}

Acyclic(parents) == \A n \in Nodes : n \notin Ancestors(parents, n, NumNodes)
IsTree(parents) == Acyclic(parents) /\ \A n \in Nodes : Cardinality(parents[n]) <= 1

\* getHours(): localHours + childHours
getHours_local(k) == cards[k].localHours
getHours(k) == cards[k].localHours + cards[k].childHours

(***************************************************************************)
(* The aggregation engine: calls.                                          *)
(*                                                                         *)
(* A call is one activation of an async function, suspended at an await.   *)
(* path is the chain of nested calls it belongs to: the index of the time  *)
(* entry, then the record of each update call of the chain; the path of a  *)
(* getOrCreate call ends with the record it resolves.  An instance is      *)
(* named by the call that constructed it.                                  *)
(***************************************************************************)
Call(path, kind, phase, node, pc, card, prev, got) ==
  [path |-> path, kind |-> kind, phase |-> phase, node |-> node, pc |-> pc,
   card |-> card, prev |-> prev, got |-> got]

CardKey(phase, path) == <<phase>> \o path

Front(s) == SubSeq(s, 1, Len(s) - 1)

\* the getOrCreate calls an update call is waiting for
CreatesOf(c) == {d \in calls : d.kind = "create" /\ Front(d.path) = c.path}
\* the update calls of its parents an update call is waiting for
UpdatesOf(c) == {d \in calls : d.kind = "update" /\ Len(d.path) > 2 /\ Front(d.path) = c.path}

\* new NotionCard({card, client, initialHours}): the constructor registers the
\* instance under the record id, replacing what was registered
Construct(key, id, initialHours) ==
  /\ cards' = cards @@ (key :> [id |-> id, localHours |-> initialHours, childHours |-> 0])
  /\ allCards' = [allCards EXCEPT ![id] = key]

\* card.update(updateType) up to its first await, getPage
StartUpdate(path, node, key) == Call(path, "update", 0, node, "getPage", key, NaN, {})

\* NotionCard.getOrCreate({id}) for each id of ids, up to the first await of
\* each: a registered instance is returned at once, the others are fetched
Cached(ids) == {allCards[m] : m \in {i \in ids : allCards[i] # None}}
Fetches(c, ids, phase) ==
  {Call(c.path \o <<m>>, "create", phase, m, "fetch", None, NaN, {}) :
     m \in {i \in ids : allCards[i] = None}}

\* realtimeLoop: one chain per time entry, each run up to its first await.
\* getOrCreate({name, project}) scans the registry first.
StartEntry(e) ==
  LET n == world.entries[e] IN
  IF allCards[n] # None
  THEN StartUpdate(<<e, n>>, n, allCards[n])
  ELSE Call(<<e, n>>, "entry", 0, n, "query", None, NaN, {})

StartPoll ==
  /\ calls = {} /\ writeQueue = << >>
  /\ poll < MaxPolls
  /\ poll' = poll + 1
  /\ writes' = 0
  /\ calls' = {StartEntry(e) : e \in DOMAIN world.entries}
  /\ UNCHANGED <<world, timeSpent, allCards, cards, writeQueue>>

\* getOrCreate({name, project}): the two database queries have answered and
\* name exactly one record: construct it (without initialHours) and update it
EntryCreated(c) ==
  /\ c.kind = "entry" /\ c.pc = "query"
  /\ LET key == CardKey(0, c.path) IN
     /\ Construct(key, c.node, 0)
     /\ calls' = (calls \ {c}) \cup {StartUpdate(c.path, c.node, key)}
  /\ UNCHANGED <<world, timeSpent, writeQueue, poll, writes>>

\* getOrCreate({id}): the record, its project and its hours have been read
CreateDone(c) ==
  /\ c.kind = "create" /\ c.pc = "fetch"
  /\ c.node \notin unparsable \cup deleted
  /\ LET key == CardKey(c.phase, c.path) IN
     /\ Construct(key, c.node, world.hours[c.node])
     /\ calls' = (calls \ {c}) \cup {[c EXCEPT !.pc = "done", !.card = key]}
  /\ UNCHANGED <<world, timeSpent, writeQueue, poll, writes>>

\* update: getPage answers; previousHours is parsed from its "Time Spent"
UpdatePage(c) ==
  /\ c.kind = "update" /\ c.pc = "getPage"
  /\ c.node \notin unparsable \cup deleted
  /\ calls' = (calls \ {c}) \cup {[c EXCEPT !.pc = "getHours", !.prev = timeSpent[c.node]]}
  /\ UNCHANGED <<world, timeSpent, allCards, cards, writeQueue, poll, writes>>

\* update: getHoursByName answers; localHours is set and the children are
\* resolved
UpdateLocal(c) ==
  /\ c.kind = "update" /\ c.pc = "getHours"
  /\ cards' = [cards EXCEPT ![c.card].localHours = world.hours[c.node]]
  /\ calls' = (calls \ {c})
        \cup {[c EXCEPT !.pc = "children", !.got = Cached(ChildIds(c.node))]}
        \cup Fetches(c, ChildIds(c.node), 1)
  /\ UNCHANGED <<world, timeSpent, allCards, writeQueue, poll, writes>>

\* update: every child is resolved; childHours is the sum of their getHours(),
\* and the parents are resolved
UpdateChildren(c) ==
  /\ c.kind = "update" /\ c.pc = "children"
  /\ \A d \in CreatesOf(c) : d.pc = "done"
  /\ LET children == c.got \cup ({d.card : d \in CreatesOf(c)} \ {None}) IN
     cards' = [cards EXCEPT ![c.card].childHours =
                 SumOver(children, [k \in children |-> getHours(k)])]
  /\ calls' = (calls \ ({c} \cup CreatesOf(c)))
        \cup {[c EXCEPT !.pc = "parents", !.got = Cached(ParentIds(c.node))]}
        \cup Fetches(c, ParentIds(c.node), 2)
  /\ UNCHANGED <<world, timeSpent, allCards, writeQueue, poll, writes>>

\* update: every parent is resolved; update is called on each of them
UpdateParents(c) ==
  /\ c.kind = "update" /\ c.pc = "parents"
  /\ \A d \in CreatesOf(c) : d.pc = "done"
  /\ \A m \in ParentIds(c.node) : Count(m, Tail(c.path)) <= MaxReentry
  /\ LET parents == c.got \cup ({d.card : d \in CreatesOf(c)} \ {None}) IN
     calls' = (calls \ ({c} \cup CreatesOf(c)))
        \cup {[c EXCEPT !.pc = "waitParents", !.got = {}]}
        \cup {StartUpdate(c.path \o <<cards[k].id>>, cards[k].id, k) : k \in parents}
  /\ UNCHANGED <<world, timeSpent, allCards, cards, writeQueue, poll, writes>>

\* a call that has returned: a nested call stays until its caller resumes,
\* the chain of a time entry ends
Return(c) ==
  IF Len(c.path) > 2 THEN {[c EXCEPT !.pc = "done"]} ELSE {}

\* update: the parents' updates have returned; the total is compared with
\* previousHours and written when it differs
UpdateCompare(c) ==
  /\ c.kind = "update" /\ c.pc = "waitParents"
  /\ \A d \in UpdatesOf(c) : d.pc = "done"
  /\ LET newHours == getHours(c.card) IN
     IF newHours = c.prev
     THEN /\ calls' = (calls \ ({c} \cup UpdatesOf(c))) \cup Return(c)
          /\ UNCHANGED <<writeQueue, writes>>
     ELSE /\ calls' = (calls \ ({c} \cup UpdatesOf(c))) \cup {[c EXCEPT !.pc = "writing"]}
          /\ writeQueue' = Append(writeQueue, [path |-> c.path, id |-> c.node, hours |-> newHours])
          /\ writes' = writes + 1
  /\ UNCHANGED <<world, timeSpent, allCards, cards, poll>>

\* updateHours: the write at the head of the write queue succeeds
WriteDone ==
  /\ writeQueue # << >>
  /\ LET w == Head(writeQueue)
         c == CHOOSE d \in calls : d.kind = "update" /\ d.path = w.path IN
     /\ timeSpent' = [timeSpent EXCEPT ![w.id] = w.hours]
     /\ calls' = (calls \ {c}) \cup Return(c)
  /\ writeQueue' = Tail(writeQueue)
  /\ UNCHANGED <<world, allCards, cards, poll, writes>>

\* update: getPage answers with a page that cardSchema.safeParse rejects:
\* if (!data) return this.localHours
UpdateUnparsed_goesOn(c) ==
  /\ c.kind = "update" /\ c.pc = "getPage"
  /\ c.node \in unparsable \ deleted
  /\ calls' = (calls \ {c}) \cup {[c EXCEPT !.pc = "getHours", !.prev = NaN]}
  /\ UNCHANGED <<world, timeSpent, allCards, cards, writeQueue, poll, writes>>
UpdateUnparsed(c) ==
  /\ c.kind = "update" /\ c.pc = "getPage"
  /\ c.node \in unparsable \ deleted
  /\ calls' = (calls \ {c}) \cup Return(c)
  /\ UNCHANGED <<world, timeSpent, allCards, cards, writeQueue, poll, writes>>

\* getOrCreate({id}): the page read does not parse as a task record:
\* if (!card) return null
CreateUnresolved(c) ==
  /\ c.kind = "create" /\ c.pc = "fetch"
  /\ c.node \in unparsable \ deleted
  /\ calls' = (calls \ {c}) \cup {[c EXCEPT !.pc = "done", !.card = None]}
  /\ UNCHANGED <<world, timeSpent, allCards, cards, writeQueue, poll, writes>>

\* the update calls that await the call of path p, directly or through the
\* calls between
Awaiting(p) ==
  {d \in calls : /\ d.kind = "update" /\ Len(d.path) < Len(p)
                  /\ d.path = SubSeq(p, 1, Len(d.path))}

\* update or getOrCreate({id}): getPage throws the 404 of pages.retrieve,
\* which withRetry throws on; neither function catches, so the call rejects,
\* and so do the Promise.all and the update that await it, up to the chain
\* of the time entry
FetchThrows(c) ==
  /\ \/ c.kind = "update" /\ c.pc = "getPage"
     \/ c.kind = "create" /\ c.pc = "fetch"
  /\ c.node \in deleted
  /\ calls' = calls \ ({c} \cup Awaiting(c.path))
  /\ rejected' = rejected \cup {c.path} \cup {d.path : d \in Awaiting(c.path)}
  /\ UNCHANGED <<world, timeSpent, allCards, cards, writeQueue, poll, writes, deleted>>

RECURSIVE CodeTotal(_, _, _)
\* the total update computes for n when every card below it is up to date
CodeTotal(w, n, k) ==
  IF k = 0 THEN 0
  ELSE LET kids == {m \in Nodes : n \in w.parents[m]} IN
       w.hours[n] + SumOver(kids, [m \in kids |-> CodeTotal(w, m, k - 1)])

World(g, e) == [parents |-> g, hours |-> [n \in Nodes |-> n], entries |-> e]

\* one time entry per poll, on any record of any of the graphs
SingleWorlds == {World(g, e) : g \in Graphs, e \in [1..1 -> Nodes]}

\* several time entries per poll, on the records of a tree
PollWorlds ==
  {World(g, e) : g \in {Line, Star}, e \in UNION {[1..k -> Nodes] : k \in 1..MaxEntries}}

\* the process has just started: the registry is empty; the records hold no
\* hours yet, or the totals an earlier run left in them
CardInit(W) ==
  /\ world \in W
  /\ timeSpent \in
       {[n \in Nodes |-> NaN]} \cup
       (IF Acyclic(world.parents)
        THEN {[n \in Nodes |-> CodeTotal(world, n, NumNodes)]} ELSE {})
  /\ allCards = [n \in Nodes |-> None]
  /\ cards = << >>
  /\ calls = {}
  /\ writeQueue = << >>
  /\ poll = 0
  /\ writes = 0

CardNext ==
  \/ StartPoll
  \/ \E c \in calls : EntryCreated(c)
  \/ \E c \in calls : CreateDone(c)
  \/ \E c \in calls : UpdatePage(c)
  \/ \E c \in calls : UpdateLocal(c)
  \/ \E c \in calls : UpdateChildren(c)
  \/ \E c \in calls : UpdateParents(c)
  \/ \E c \in calls : UpdateCompare(c)
  \/ WriteDone

(***************************************************************************)
(* The request scheduler (limits.ts).                                      *)
(***************************************************************************)
UpdateTypes == {"realtime", "bulk", "background"}

\* the update types the program passes: pollers and handlers use "realtime",
\* the hourly pass and the cards' own timers use "bulk"
UsedTypes == {"realtime", "bulk"}

\* PRIORITY: higher numbers get processed first
PRIORITY(updateType) ==
  CASE updateType = "realtime" -> 10
    [] updateType = "bulk" -> 2
    [] updateType = "background" -> 1

Clients == 0..(NumClients - 1)
\* harvestReadQueue, next to the queues of the clients
Harvest == NumClients
Queues == Clients \cup {Harvest}
Idle == -1

\* the queues start empty, with no timer, and nothing has been requested
LimitIdle ==
  /\ now = 0
  /\ items = [q \in Queues |-> << >>]
  /\ timer = [q \in Queues |-> Idle]
  /\ queueIndex = 0
  /\ reqs = << >>
  /\ nGrants = 0
  /\ writeItems = << >>
  /\ ops = << >>

\* a queued task: the request or operation it stands for, and its priority
Task(id, updateType) == [id |-> id, priority |-> PRIORITY(updateType)]

\* addItem with getPriority: the task goes before the first waiting task of
\* lower priority, behind the tasks of its own priority
InsertByPriority_fifo(queue, task) == Append(queue, task)
InsertByPriority(queue, task) ==
  LET lower == {i \in DOMAIN queue : queue[i].priority < task.priority}
      at == IF lower = {} THEN Len(queue) + 1
            ELSE CHOOSE i \in lower : \A j \in lower : i <= j
  IN SubSeq(queue, 1, at - 1) \o <<task>> \o SubSeq(queue, at, Len(queue))

\* pendingTick of a read queue: it has granted a permit and its wait is not
\* known to be over
pendingTick_never(q) == FALSE
pendingTick(q) == timer[q] # Idle

\* concurrency of notionWriteQueue
WriteConcurrency == 1

\* the write operations that hold the write slot: started and not settled
Active(os) == {o \in DOMAIN os : os[o].state \in {"permit", "call"}}

\* the number of write operations the queue may start now
FreeSlots_ignoreActive(os) == WriteConcurrency
FreeSlots(os) == WriteConcurrency - Cardinality(Active(os))

\* task.resolve(client): the request is granted its permit; a write that
\* waited for it sends its request
Granted_not(rs, id) == rs
Granted(rs, id) == [rs EXCEPT ![id].at = now, ![id].order = nGrants + 1]
\* async (task) => { task.resolve(client) } of queue q: the permit carries
\* the client the queue was made for
Delivered(rs, id, q) == [rs EXCEPT ![id].client = q]
OpsAfterGrant(os, op) == IF op = 0 THEN os ELSE [os EXCEPT ![op].state = "call"]

\* queue(task) on read queue q, for a write operation op or for a read
\* (op = 0): an idle queue grants the request at once and starts its wait; a
\* waiting queue keeps it, by priority
AddItem(q, updateType, op, os) ==
  LET id == Len(reqs) + 1
      r == [type |-> updateType, queue |-> q, seen |-> nGrants, at |-> Idle,
            order |-> 0, op |-> op, client |-> Idle]
      rs == Append(reqs, r)
  IN IF ~pendingTick(q)
     THEN /\ reqs' = Delivered([rs EXCEPT ![id].at = now, ![id].order = nGrants + 1], id, q)
          /\ nGrants' = nGrants + 1
          /\ timer' = [timer EXCEPT ![q] = WaitTicks]
          /\ items' = items
          /\ ops' = OpsAfterGrant(os, op)
     ELSE /\ reqs' = rs
          /\ items' = [items EXCEPT ![q] =
               InsertByPriority(@, Task(id, updateType))]
          /\ ops' = os
          /\ UNCHANGED <<nGrants, timer>>

\* notionRateLimit(updateType): the request goes to the next queue in rotation
notionRateLimit_sameQueue(updateType, op, os) ==
  /\ queueIndex' = queueIndex
  /\ AddItem(queueIndex, updateType, op, os)
notionRateLimit(updateType, op, os) ==
  /\ queueIndex' = (queueIndex + 1) % NumClients
  /\ AddItem(queueIndex, updateType, op, os)

Reads == {i \in DOMAIN reqs : reqs[i].op = 0}

\* a read of the workspace (getPage, queryDatabase) asks for its permit
Read(updateType) ==
  /\ Cardinality(Reads) < MaxReads
  /\ notionRateLimit(updateType, 0, ops)
  /\ UNCHANGED <<now, writeItems>>

\* harvestRateLimit(updateType): a read of the time tracker asks for its permit
HarvestRead(updateType) ==
  /\ Cardinality(Reads) < MaxReads
  /\ AddItem(Harvest, updateType, 0, ops)
  /\ UNCHANGED <<now, queueIndex, writeItems>>

\* the wait of a read queue is over: it grants its first waiting request and
\* waits again, or goes idle when nothing waits
QueueTick_last(q) ==
  /\ timer[q] = 0
  /\ IF items[q] = << >>
     THEN /\ timer' = [timer EXCEPT ![q] = Idle]
          /\ UNCHANGED <<items, reqs, nGrants, ops>>
     ELSE LET id == items[q][Len(items[q])].id IN
          /\ reqs' = Delivered(Granted(reqs, id), id, q)
          /\ nGrants' = nGrants + 1
          /\ ops' = OpsAfterGrant(ops, reqs[id].op)
          /\ items' = [items EXCEPT ![q] = Front(@)]
          /\ timer' = [timer EXCEPT ![q] = WaitTicks]
  /\ UNCHANGED <<now, queueIndex, writeItems>>
QueueTick(q) ==
  /\ timer[q] = 0
  /\ IF items[q] = << >>
     THEN /\ timer' = [timer EXCEPT ![q] = Idle]
          /\ UNCHANGED <<items, reqs, nGrants, ops>>
     ELSE LET id == Head(items[q]).id IN
          /\ reqs' = Delivered(Granted(reqs, id), id, q)
          /\ nGrants' = nGrants + 1
          /\ ops' = OpsAfterGrant(ops, reqs[id].op)
          /\ items' = [items EXCEPT ![q] = Tail(@)]
          /\ timer' = [timer EXCEPT ![q] = WaitTicks]
  /\ UNCHANGED <<now, queueIndex, writeItems>>

\* time passes; a timer that is due fires at this time or later
Tick ==
  /\ now < MaxTime
  /\ now' = now + 1
  /\ timer' = [q \in Queues |-> IF timer[q] > 0 THEN timer[q] - 1 ELSE timer[q]]
  /\ UNCHANGED <<items, queueIndex, reqs, nGrants, writeItems, ops>>

\* runUpdateHours asks with the update type of the write, runSendError always
\* with "realtime"
PermitType(o) == IF o.kind = "sendError" THEN "realtime" ELSE o.type

\* notionWriteQueue's tick: while a slot is free, the first waiting operation
\* is started; it runs up to its first await, the read permit
RunWriteQueue_last(queue, os) ==
  IF queue # << >> /\ FreeSlots(os) > 0
  THEN LET o == queue[Len(queue)].id IN
       /\ writeItems' = Front(queue)
       /\ notionRateLimit(PermitType(os[o]), o, [os EXCEPT ![o].state = "permit"])
  ELSE /\ writeItems' = queue
       /\ ops' = os
       /\ UNCHANGED <<items, timer, queueIndex, reqs, nGrants>>
RunWriteQueue(queue, os) ==
  IF queue # << >> /\ FreeSlots(os) > 0
  THEN LET o == Head(queue).id IN
       /\ writeItems' = Tail(queue)
       /\ notionRateLimit(PermitType(os[o]), o, [os EXCEPT ![o].state = "permit"])
  ELSE /\ writeItems' = queue
       /\ ops' = os
       /\ UNCHANGED <<items, timer, queueIndex, reqs, nGrants>>

\* notionWriteLimit(operation, updateType): updateHours or sendError, while
\* fewer than max writes have been submitted
WriteUpTo(kind, updateType, max) ==
  /\ Len(ops) < max
  /\ LET o == Len(ops) + 1
         os == Append(ops, [kind |-> kind, type |-> updateType, state |-> "queued",
                            caller |-> "pending"])
     IN RunWriteQueue(InsertByPriority(writeItems, Task(o, updateType)), os)
  /\ UNCHANGED now

Write(kind, updateType) == WriteUpTo(kind, updateType, MaxWrites)

\* the operation returns: resolve(result) settles the caller's promise, and
\* the queue goes on to its next operation
WriteSucceeds(o) ==
  /\ ops[o].state = "call"
  /\ RunWriteQueue(writeItems, [ops EXCEPT ![o].state = "ok", ![o].caller = "resolved"])
  /\ UNCHANGED now

\* the operation throws (a non-timeout error, or the last timeout):
\* resolve is not reached and the promise has no reject; the queue frees
\* the slot and rethrows, which ends its tick
WriteFails(o) ==
  /\ ops[o].state = "call"
  /\ ops' = [ops EXCEPT ![o].state = "failed"]
  /\ UNCHANGED <<now, items, timer, queueIndex, reqs, nGrants, writeItems>>

\* every request so far went to a queue of Q
OnlyQueues(Q) == \A i \in DOMAIN reqs : reqs[i].queue \in Q

\* The read limiters under a burst of reads.  The limiter of the workspace
\* and the limiter of the time tracker share no state, so a run loads one of
\* them.
LimitNext ==
  \/ OnlyQueues(Clients) /\ \E t \in UsedTypes : Read(t)
  \/ OnlyQueues({Harvest}) /\ \E t \in UsedTypes : HarvestRead(t)
  \/ \E q \in Queues : QueueTick(q)
  \/ Tick

\* the write queue, with the read permit each write takes
WriteNext ==
  \/ \E k \in {"updateHours", "sendError"}, t \in UsedTypes : Write(k, t)
  \/ \E o \in DOMAIN ops : WriteSucceeds(o)
  \/ \E o \in DOMAIN ops : WriteFails(o)
  \/ \E q \in Clients : QueueTick(q)
  \/ Tick

\* time passes without end: the timers run down; the times of the grants
\* are not recorded
TimePasses ==
  /\ now' = now
  /\ \E q \in Queues : timer[q] > 0
  /\ timer' = [q \in Queues |-> IF timer[q] > 0 THEN timer[q] - 1 ELSE timer[q]]
  /\ UNCHANGED <<items, queueIndex, reqs, nGrants, writeItems, ops>>

\* the read limiters under a burst of reads, for as long as it takes
LimitLiveNext ==
  \/ OnlyQueues(Clients) /\ \E t \in UsedTypes : Read(t)
  \/ OnlyQueues({Harvest}) /\ \E t \in UsedTypes : HarvestRead(t)
  \/ \E q \in Queues : QueueTick(q)
  \/ TimePasses

\* time passes, and a timer that is due fires
LimitFairness ==
  /\ WF_limitVars(TimePasses)
  /\ \A q \in Queues : WF_limitVars(QueueTick(q))

\* the write queue under updateHours alone, one write more of them
WriteOrderNext ==
  \/ \E t \in UsedTypes : WriteUpTo("updateHours", t, MaxWrites + 1)
  \/ \E o \in DOMAIN ops : WriteSucceeds(o)
  \/ \E o \in DOMAIN ops : WriteFails(o)
  \/ \E q \in Clients : QueueTick(q)
  \/ Tick

\* the process has just started and nothing of the engine runs
CardIdle ==
  /\ world = World(Line, <<1>>)
  /\ timeSpent = [n \in Nodes |-> NaN]
  /\ allCards = [n \in Nodes |-> None]
  /\ cards = << >>
  /\ calls = {}
  /\ writeQueue = << >>
  /\ poll = 0
  /\ writes = 0


(***************************************************************************)
(* C2: at no time are two write operations submitted through               *)
(* notionWriteLimit executing together: the number of workspace writes in  *)
(* flight never exceeds 1.                                                 *)
(***************************************************************************)
C2_WritesSerialized == Cardinality(Active(ops)) <= 1

\* a write holds the slot while another one waits in the queue
C2_Witness == Active(ops) # {} /\ writeItems # << >>

\* the permits queue q granted at the times t .. t + w - 1
GrantsIn(q, t, w) ==
  {i \in DOMAIN reqs : /\ reqs[i].queue = q /\ reqs[i].order > 0
                       /\ reqs[i].at >= t /\ reqs[i].at < t + w}

(***************************************************************************)
(* C6: no read limiter grants more than R permits in any window of size W, *)
(* where the wait of the limiter is W / R (3 per second for a credential   *)
(* queue, 100 per 15 seconds for the time-tracking queue): for every k, a  *)
(* window of k waits, taken from any time t up to and without t + k waits, *)
(* holds at most k grants of one queue.                                    *)
(***************************************************************************)
C6_RateCeiling ==
  \A q \in Queues, k \in 1..(MaxTime + 1), t \in 0..MaxTime :
     Cardinality(GrantsIn(q, t, k * WaitTicks)) <= k

\* a queue has granted three permits in three waits and holds a request back
C6_Witness ==
  \E q \in Queues : /\ Cardinality(GrantsIn(q, 0, 3 * WaitTicks)) = 3
                    /\ items[q] # << >>

\* request j was still queued when request i was submitted
StillQueued(j, i) ==
  j < i /\ (reqs[j].order = 0 \/ reqs[j].order > reqs[i].seen)

\* realtime request i and bulk request j of the workspace, j still queued
\* when i was submitted
RealtimeAfterBulk(i, j) ==
  /\ reqs[i].type = "realtime" /\ reqs[i].queue \in Clients
  /\ reqs[j].type = "bulk" /\ reqs[j].queue \in Clients
  /\ StillQueued(j, i)

\* i is granted before j
GrantedBefore(i, j) ==
  reqs[j].order > 0 => (reqs[i].order > 0 /\ reqs[i].order < reqs[j].order)

(***************************************************************************)
(* C7, as stated: a realtime request is granted its permit before every    *)
(* bulk request that was still queued when it was submitted, over all      *)
(* credential queues together.                                             *)
(***************************************************************************)
C7_RealtimeFirstGlobal ==
  \A i, j \in DOMAIN reqs : RealtimeAfterBulk(i, j) => GrantedBefore(i, j)

(***************************************************************************)
(* C7, amended: a realtime request is granted its permit before every bulk *)
(* request that was still queued in the same credential queue when it was  *)
(* submitted.                                                              *)
(***************************************************************************)
C7_RealtimeFirstPerQueue ==
  \A i, j \in DOMAIN reqs :
     (RealtimeAfterBulk(i, j) /\ reqs[i].queue = reqs[j].queue) => GrantedBefore(i, j)

\* a realtime request has overtaken a bulk request of its queue, and both
\* have their permits
C7_Witness ==
  \E i, j \in DOMAIN reqs :
     /\ RealtimeAfterBulk(i, j) /\ reqs[i].queue = reqs[j].queue
     /\ reqs[i].order > 0 /\ reqs[j].order > reqs[i].order

\* requests i and j of one tier and one provider, i submitted first
SameTier(i, j) ==
  /\ i < j
  /\ reqs[i].type = reqs[j].type
  /\ (reqs[i].queue = Harvest) <=> (reqs[j].queue = Harvest)

\* queue q holds or held a request of a higher tier than request i,
\* submitted after request j
HigherTierAfter(q, i, j) ==
  \E k \in DOMAIN reqs :
     k > j /\ reqs[k].queue = q /\ PRIORITY(reqs[k].type) > PRIORITY(reqs[i].type)

(***************************************************************************)
(* C23, as stated: of two read-permit requests of one tier for one         *)
(* provider, the one submitted first is granted first, also when they are  *)
(* in different queues and the queue of the first holds requests of a      *)
(* higher tier: the later one never has its permit at an earlier time than *)
(* the first, whose permit comes now at the earliest when it still waits.  *)
(***************************************************************************)
C23_TierOrderGlobal ==
  \A i, j \in DOMAIN reqs :
     (/\ SameTier(i, j) /\ reqs[j].order > 0
      /\ HigherTierAfter(reqs[i].queue, i, j))
     => (IF reqs[i].order > 0 THEN reqs[i].at ELSE now) <= reqs[j].at

(***************************************************************************)
(* C23, amended: of two read-permit requests of one tier in one queue, the *)
(* one submitted first is granted first.                                   *)
(***************************************************************************)
C23_TierOrderPerQueue ==
  \A i, j \in DOMAIN reqs :
     (SameTier(i, j) /\ reqs[i].queue = reqs[j].queue) => GrantedBefore(i, j)

\* two bulk requests of one queue have their permits, in their order, and a
\* realtime request submitted after them went between
C23_Witness ==
  \E i, j, k \in DOMAIN reqs :
     /\ SameTier(i, j) /\ reqs[i].queue = reqs[j].queue /\ j < k
     /\ reqs[k].queue = reqs[i].queue
     /\ reqs[i].type = "bulk" /\ reqs[k].type = "realtime"
     /\ reqs[i].order > 0 /\ reqs[k].order > reqs[i].order /\ reqs[j].order > reqs[k].order

\* write operation o waits for the write slot, before or after a step
Waits(os, o) == o \in DOMAIN os /\ os[o].state = "queued"
\* write operation o goes first of o and p: it is of a higher tier, or of
\* the same tier and submitted first
GoesFirst(os, o, p) ==
  \/ PRIORITY(os[o].type) > PRIORITY(os[p].type)
  \/ PRIORITY(os[o].type) = PRIORITY(os[p].type) /\ o < p

(***************************************************************************)
(* C24: the write that is started next goes first of all writes that wait  *)
(* for the slot (the tier decides, then the order of submission), and a    *)
(* write that has started does not go back to waiting when a write of a    *)
(* higher tier is submitted.                                               *)
(***************************************************************************)
C24_HighestTierStartsNext ==
  [][\A o \in DOMAIN ops' :
       /\ (~Waits(ops', o) /\ (o \notin DOMAIN ops \/ Waits(ops, o)))
          => \A p \in DOMAIN ops' \ {o} : Waits(ops', p) => GoesFirst(ops', o, p)
       /\ (o \in DOMAIN ops /\ ~Waits(ops, o)) => ops'[o].state # "queued"]_vars

\* a realtime write has been started ahead of a bulk write submitted before
\* it, which still waits
C24_Witness ==
  \E o, p \in DOMAIN ops :
     /\ o < p /\ ops[o].type = "bulk" /\ ops[p].type = "realtime"
     /\ Waits(ops, o) /\ ops[p].state \in {"permit", "call"}

\* request i has been submitted and has no permit yet
Waiting(i) == i \in DOMAIN reqs /\ reqs[i].order = 0
\* every request submitted so far has its permit
NothingWaits == \A i \in DOMAIN reqs : ~Waiting(i)
\* a request without its permit is held by the queue it was given to
NoneDropped ==
  \A i \in DOMAIN reqs :
     Waiting(i) => \E k \in DOMAIN items[reqs[i].queue] : items[reqs[i].queue][k].id = i

(***************************************************************************)
(* C25: the read limiters reject and drop nothing: every request is taken, *)
(* a request without its permit stays in its queue, and every request gets *)
(* its permit in the end: again and again, no submitted request is         *)
(* without its permit.                                                     *)
(***************************************************************************)
C25_EveryRequestGranted ==
  /\ []NoneDropped
  /\ []<>NothingWaits

\* a request waits behind another one in its queue
C25_Witness ==
  \E q \in Queues : Len(items[q]) > 1

\* the calls of notionRateLimit so far, in the order they were made
NotionCalls == {i \in DOMAIN reqs : reqs[i].queue \in Clients}

(***************************************************************************)
(* C34: the calls of notionRateLimit go to the credential queues in strict *)
(* rotation: the call made after k others goes to queue k mod the number   *)
(* of queues, whatever its tier and however long the queues are; it waits  *)
(* in that queue and in no other, and the permit it receives carries the   *)
(* client of that queue.                                                   *)
(***************************************************************************)
C34_StrictRotation ==
  /\ queueIndex = Cardinality(NotionCalls) % NumClients
  /\ \A i \in NotionCalls :
        /\ reqs[i].queue = Cardinality({j \in NotionCalls : j < i}) % NumClients
        /\ reqs[i].order > 0 => reqs[i].client = reqs[i].queue
        /\ \A q \in Queues :
              (\E n \in DOMAIN items[q] : items[q][n].id = i)
                 <=> (q = reqs[i].queue /\ reqs[i].order = 0)

\* the rotation has come round to a queue that is longer than another one,
\* with requests of both tiers, and a later request holds its permit
C34_Witness ==
  /\ Cardinality(NotionCalls) > NumClients + 1
  /\ \E i, j \in NotionCalls : reqs[i].type # reqs[j].type
  /\ \E p, q \in Clients : Len(items[p]) > Len(items[q]) /\ queueIndex = p
  /\ \E i \in NotionCalls : i > NumClients /\ reqs[i].order > 0 /\ reqs[i].client = reqs[i].queue

(***************************************************************************)
(* C9: when a write operation run through notionWriteLimit fails, the      *)
(* promise returned to the caller settles with the error: no caller of a   *)
(* failed write is left pending.                                           *)
(***************************************************************************)
C9_FailedWriteSettles ==
  \A o \in DOMAIN ops : ops[o].state = "failed" => ops[o].caller # "pending"

(***************************************************************************)
(* C1: update(node) terminates for any relation graph.  The relation data  *)
(* of a pass is fixed, so a chain of nested update calls that enters a     *)
(* record it is already updating repeats for ever; update terminates       *)
(* exactly when no chain of nested update calls holds a record twice.      *)
(***************************************************************************)
C1_UpdateTerminates ==
  \A c \in calls : c.kind = "update" =>
     \A n \in Nodes : Count(n, Tail(c.path)) <= 1


(***************************************************************************)
(* C3: a second update(node), started after the first has completed and    *)
(* with the time entries and the relations unchanged, issues no            *)
(* updateHours write, neither for the node nor for an ancestor.            *)
(***************************************************************************)
C3_SecondUpdateWritesNothing == poll >= 2 => writes = 0

\* the records of the updated node and of its ancestors
UpdatedChain == {world.entries[1]} \cup Ancestors(world.parents, world.entries[1], NumNodes)

RECURSIVE Depth(_, _)
\* the number of records on the longest chain of parent links from n
Depth(n, k) ==
  IF k = 0 \/ world.parents[n] = {} THEN 1
  ELSE 1 + Depth(CHOOSE p \in world.parents[n] :
                   \A q \in world.parents[n] : Depth(q, k - 1) <= Depth(p, k - 1), k - 1)

PassDone == poll = 1 /\ calls = {} /\ writeQueue = << >>

(***************************************************************************)
(* C4: in a cycle-free tree, after one update call has completed, the      *)
(* updated node and each of its ancestors holds, in localHours +           *)
(* childHours and in the record, its own hours plus the hours of all its   *)
(* descendants, and the pass has issued at most as many writes as the      *)
(* tree is deep.                                                           *)
(***************************************************************************)
C4_Convergence ==
  (PassDone /\ IsTree(world.parents)) =>
     /\ \A n \in UpdatedChain :
          /\ allCards[n] # None
          /\ getHours(allCards[n]) = CodeTotal(world, n, NumNodes)
          /\ timeSpent[n] = CodeTotal(world, n, NumNodes)
     /\ writes <= Depth(world.entries[1], NumNodes)

(***************************************************************************)
(* C5: at most one NotionCard instance exists per record id, also when     *)
(* getOrCreate calls that resolve the same record overlap.                 *)
(***************************************************************************)
C5_OneInstancePerId ==
  \A k1, k2 \in DOMAIN cards : cards[k1].id = cards[k2].id => k1 = k2

(***************************************************************************)
(* C12: bulk work does not starve the realtime workload: every realtime    *)
(* write is dispatched in the end.  The write queue starts a waiting       *)
(* operation when an operation ends or a new one is submitted, so a        *)
(* realtime write that waits next to bulk writes must have a write in      *)
(* flight ahead of it, whose end dispatches it.                            *)
(***************************************************************************)
C12_RealtimeWriteDispatched ==
  \A o \in DOMAIN ops :
     (/\ ops[o].type = "realtime" /\ ops[o].state = "queued"
      /\ \A p \in DOMAIN ops \ {o} : ops[p].type = "bulk")
     => Active(ops) # {}

(***************************************************************************)
(* The caches (notion.ts, harvest.ts).                                     *)
(***************************************************************************)
Namespaces == {"page", "database", "hours"}

\* no lookup has been made
CacheIdle(ns) ==
  /\ namespace \in ns
  /\ cache = None
  /\ runs = << >>
  /\ lookups = << >>
  /\ pageWrites = 0
  /\ writtenAt = Idle

\* cache.set(cacheKey, promise): the entry is replaced and lives from now
CacheSet_lost(promise) == cache
CacheSet(promise) == [promise |-> promise, at |-> now]

\* getPage / queryDatabase / getHoursByName: a cached promise is returned;
\* without one the uncached function is started and its promise is cached
\* before anything else runs.  A promise is the number of the run it belongs
\* to, or minus the number of the write whose result it holds.
Lookup ==
  /\ Len(lookups) < MaxLookups
  /\ LET inFlight == {r \in DOMAIN runs : runs[r] = "flight"} IN
     IF cache # None
     THEN /\ lookups' = Append(lookups, [at |-> now, hit |-> TRUE,
                                          got |-> cache.promise, inFlight |-> inFlight,
                                          writes |-> pageWrites, writtenAt |-> writtenAt])
          /\ UNCHANGED <<cache, runs>>
     ELSE LET r == Len(runs) + 1 IN
          /\ runs' = Append(runs, "flight")
          /\ cache' = CacheSet(r)
          /\ lookups' = Append(lookups, [at |-> now, hit |-> FALSE, got |-> r,
                                          inFlight |-> inFlight,
                                          writes |-> pageWrites, writtenAt |-> writtenAt])
  /\ UNCHANGED <<namespace, pageWrites, writtenAt>>

\* the uncached function returns or throws; the cached promise settles with it
RunSettles_evicts(r, outcome) ==
  /\ runs[r] = "flight"
  /\ runs' = [runs EXCEPT ![r] = outcome]
  /\ cache' = IF outcome = "err" /\ cache # None /\ cache.promise = r THEN None ELSE cache
  /\ UNCHANGED <<namespace, lookups, pageWrites, writtenAt>>
RunSettles(r, outcome) ==
  /\ runs[r] = "flight"
  /\ runs' = [runs EXCEPT ![r] = outcome]
  /\ UNCHANGED <<namespace, cache, lookups, pageWrites, writtenAt>>

\* runUpdateHours succeeds: pageCache.set(notionId, Promise.resolve(result))
PageWritten_notCached ==
  /\ namespace = "page"
  /\ pageWrites < MaxWrites
  /\ pageWrites' = pageWrites + 1
  /\ writtenAt' = now
  /\ UNCHANGED <<namespace, cache, runs, lookups>>
PageWritten ==
  /\ namespace = "page"
  /\ pageWrites < MaxWrites
  /\ pageWrites' = pageWrites + 1
  /\ writtenAt' = now
  /\ cache' = CacheSet(-(pageWrites + 1))
  /\ UNCHANGED <<namespace, runs, lookups>>

\* expireAfterMs: an entry that has lived its time is dropped, at that time
\* or later
Expire ==
  /\ cache # None
  /\ now - cache.at >= TTLTicks
  /\ cache' = None
  /\ UNCHANGED <<namespace, runs, lookups, pageWrites, writtenAt>>

CacheNext ==
  \/ Lookup /\ UNCHANGED limitVars
  \/ \E r \in DOMAIN runs, outcome \in {"ok", "err"} : RunSettles(r, outcome) /\ UNCHANGED limitVars
  \/ PageWritten /\ UNCHANGED limitVars
  \/ Expire /\ UNCHANGED limitVars
  \/ Tick /\ UNCHANGED cacheVars

\* lookups i and j, j later, where i started the run
FirstAndSecond(i, j) == i < j /\ ~lookups[i].hit

(***************************************************************************)
(* C8, as stated: of two calls with the same key, the second made while    *)
(* the first is in flight or within one TTL of it, only the first starts   *)
(* the remote work; the second receives the promise of the first.          *)
(***************************************************************************)
C8_Dedup ==
  \A i, j \in DOMAIN lookups :
     (/\ FirstAndSecond(i, j)
      /\ \/ lookups[i].got \in lookups[j].inFlight
         \/ lookups[j].at - lookups[i].at < TTLTicks)
     => (lookups[j].hit /\ lookups[j].got = lookups[i].got)

(***************************************************************************)
(* C8, amended: of two calls with the same key, the second made within one *)
(* TTL of the first, only the first starts the remote work; the second     *)
(* receives the promise of the first or, for getPage, the result of a      *)
(* write of the page made since.                                           *)
(***************************************************************************)
C8_DedupWithinTTL ==
  \A i, j \in DOMAIN lookups :
     (FirstAndSecond(i, j) /\ lookups[j].at - lookups[i].at < TTLTicks)
     => /\ lookups[j].hit
        /\ \/ lookups[j].got = lookups[i].got
           \/ namespace = "page" /\ lookups[j].got < 0

\* a second call within the TTL was given the promise of a first call that
\* is still in flight
C8_Witness ==
  \E i, j \in DOMAIN lookups :
     /\ FirstAndSecond(i, j) /\ lookups[j].at - lookups[i].at < TTLTicks
     /\ lookups[j].got = lookups[i].got
     /\ lookups[i].got \in lookups[j].inFlight

\* lookup i started a run that has thrown, and lookup j was made after it
\* had thrown, less than one TTL after lookup i
AfterFailure(i, j) ==
  /\ FirstAndSecond(i, j)
  /\ runs[lookups[i].got] = "err"
  /\ lookups[i].got \notin lookups[j].inFlight
  /\ lookups[j].at - lookups[i].at < TTLTicks

(***************************************************************************)
(* C36: a lookup that fails is cached like one that succeeds: a call with  *)
(* the same key made after the cached promise has rejected, within the TTL *)
(* of its entry, starts no run of its own and receives that promise, and   *)
(* so the same failure, unless the entry has been overwritten (by a write  *)
(* of the page) since.                                                     *)
(***************************************************************************)
C36_FailureIsCached ==
  \A i, j \in DOMAIN lookups :
     AfterFailure(i, j) =>
        /\ lookups[j].hit
        /\ \/ lookups[j].got = lookups[i].got
           \/ namespace = "page" /\ lookups[j].got < 0 /\ lookups[j].writes > lookups[i].writes

\* a call made after the failure of a lookup, within its TTL, was given the
\* rejected promise
C36_Witness ==
  \E i, j \in DOMAIN lookups :
     AfterFailure(i, j) /\ lookups[j].hit /\ lookups[j].got = lookups[i].got

(***************************************************************************)
(* C19: a getPage made after a successful write of the page, less than one *)
(* TTL after the latest one, is given the record that write returned, from *)
(* the cache and without a run of its own, also when a read of the page    *)
(* was in flight.                                                          *)
(***************************************************************************)
C19_WriteThrough ==
  \A i \in DOMAIN lookups :
     (lookups[i].writtenAt # Idle /\ lookups[i].at - lookups[i].writtenAt < TTLTicks)
     => (lookups[i].hit /\ lookups[i].got = -lookups[i].writes)

\* a getPage after a write, a read started before the write still in flight
C19_Witness ==
  \E i \in DOMAIN lookups :
     /\ lookups[i].writtenAt # Idle /\ lookups[i].at - lookups[i].writtenAt < TTLTicks
     /\ lookups[i].got = -lookups[i].writes
     /\ lookups[i].inFlight # {}

(***************************************************************************)
(* The watchdog (heartbeat.ts) and the loops of harvest.ts.                *)
(***************************************************************************)
\* HEARTBEAT_TIMEOUT_MS, in check intervals (CHECK_INTERVAL_MS)
HEARTBEAT_TIMEOUT == 6

\* the process has not exited
NoExit == -1

\* startWatching() has run: both loops are in their first pass
WatchInit ==
  /\ loop = "polling"
  /\ bulk = "running"
  /\ heartbeatAge = 0
  /\ checkIntervalId = FALSE
  /\ checkDue = FALSE
  /\ exitCode = NoExit

Running == exitCode = NoExit

\* sendHeartbeat()
sendHeartbeat == heartbeatAge' = 0

\* startHeartbeatChecker(): the interval is set (again)
startHeartbeatChecker ==
  /\ Running
  /\ checkIntervalId' = TRUE
  /\ checkDue' = FALSE
  /\ UNCHANGED <<loop, bulk, heartbeatAge, exitCode>>

\* a check interval passes
WatchTick ==
  /\ Running /\ ~checkDue
  /\ heartbeatAge' = IF heartbeatAge > HEARTBEAT_TIMEOUT THEN heartbeatAge
                     ELSE heartbeatAge + 1
  /\ checkDue' = checkIntervalId
  /\ UNCHANGED <<loop, bulk, checkIntervalId, exitCode>>

\* the callback of the interval: process.exit(1) when the last heartbeat is
\* older than the timeout
HeartbeatCheck_early ==
  /\ Running /\ checkDue
  /\ checkDue' = FALSE
  /\ exitCode' = IF heartbeatAge >= HEARTBEAT_TIMEOUT THEN 1 ELSE exitCode
  /\ UNCHANGED <<loop, bulk, heartbeatAge, checkIntervalId>>
HeartbeatCheck ==
  /\ Running /\ checkDue
  /\ checkDue' = FALSE
  /\ exitCode' = IF heartbeatAge > HEARTBEAT_TIMEOUT THEN 1 ELSE exitCode
  /\ UNCHANGED <<loop, bulk, heartbeatAge, checkIntervalId>>

\* realtimeLoop gets through its entries: sendHeartbeat(), then await waiting
PollCompletes ==
  /\ Running /\ loop = "polling"
  /\ sendHeartbeat
  /\ loop' = "waiting"
  /\ UNCHANGED <<bulk, checkIntervalId, checkDue, exitCode>>

\* the interval of the loop is over: realtimeLoop() again
LoopAgain ==
  /\ Running /\ loop = "waiting"
  /\ loop' = "polling"
  /\ UNCHANGED <<bulk, heartbeatAge, checkIntervalId, checkDue, exitCode>>

\* an update the loop awaits never returns: its chain of parents does not
\* end, or a write it awaits has failed
LoopBlocks ==
  /\ Running /\ loop = "polling"
  /\ loop' = "blocked"
  /\ UNCHANGED <<bulk, heartbeatAge, checkIntervalId, checkDue, exitCode>>

\* a request or an update of the loop throws: realtimeLoop() rejects and
\* nothing handles it; the runtime ends the process or only reports it
LoopThrows ==
  /\ Running /\ loop = "polling"
  /\ loop' = "ended"
  /\ exitCode' \in {NoExit, 1}
  /\ UNCHANGED <<bulk, heartbeatAge, checkIntervalId, checkDue>>

\* a write of the bulk pass or of a card's own timer succeeds:
\* runUpdateHours calls sendHeartbeat()
BulkWriteSucceeds ==
  /\ Running /\ bulk = "running"
  /\ sendHeartbeat
  /\ UNCHANGED <<loop, bulk, checkIntervalId, checkDue, exitCode>>

\* the bulk pass ends and schedules the next one
BulkEnds ==
  /\ Running /\ bulk = "running"
  /\ bulk' = "waiting"
  /\ UNCHANGED <<loop, heartbeatAge, checkIntervalId, checkDue, exitCode>>

\* the next bulk pass, or the re-updates of the cards' timers, start
BulkStarts ==
  /\ Running /\ bulk = "waiting"
  /\ bulk' = "running"
  /\ UNCHANGED <<loop, heartbeatAge, checkIntervalId, checkDue, exitCode>>

WatchNext ==
  \/ startHeartbeatChecker
  \/ WatchTick
  \/ HeartbeatCheck
  \/ PollCompletes
  \/ LoopAgain
  \/ LoopBlocks
  \/ LoopThrows
  \/ BulkWriteSucceeds
  \/ BulkEnds
  \/ BulkStarts

\* timers fire and work that is not blocked goes on
WatchFairness ==
  /\ WF_watchVars(WatchTick)
  /\ WF_watchVars(HeartbeatCheck)
  /\ WF_watchVars(PollCompletes)
  /\ WF_watchVars(LoopAgain)
  /\ WF_watchVars(BulkEnds)
  /\ WF_watchVars(BulkStarts)

\* the realtime loop completes no more iterations
Stalled == loop \in {"blocked", "ended"}

(***************************************************************************)
(* C10: once the realtime loop has stalled, the process eventually exits   *)
(* with code 1, whatever else goes on in the process.                      *)
(***************************************************************************)
C10_StallLeadsToExit == Stalled ~> (exitCode = 1)

\* the program with its watchdog: the interval is set when the loops start
WatchdogInit ==
  /\ loop = "polling"
  /\ bulk = "running"
  /\ heartbeatAge = 0
  /\ checkIntervalId = TRUE
  /\ checkDue = FALSE
  /\ exitCode = NoExit

WatchdogNext ==
  \/ WatchTick
  \/ HeartbeatCheck
  \/ PollCompletes
  \/ LoopAgain
  \/ LoopBlocks
  \/ LoopThrows
  \/ BulkWriteSucceeds
  \/ BulkEnds
  \/ BulkStarts

(***************************************************************************)
(* C11: a check of the watchdog exits with code 1 exactly when the last    *)
(* heartbeat is older than the timeout.  So a process whose loop has not   *)
(* thrown has exited only with a heartbeat older than the timeout, and a   *)
(* running process whose heartbeat is older than the timeout is at the     *)
(* check that ends it: less than one check interval after the timeout.     *)
(***************************************************************************)
C11_WatchdogTiming ==
  /\ (exitCode = 1 /\ loop # "ended") => heartbeatAge > HEARTBEAT_TIMEOUT
  /\ (Running /\ heartbeatAge > HEARTBEAT_TIMEOUT) => checkDue

\* the watchdog has ended a process whose loop is blocked, at the first
\* check after the timeout
C11_Witness ==
  exitCode = 1 /\ loop = "blocked" /\ heartbeatAge = HEARTBEAT_TIMEOUT + 1

(***************************************************************************)
(* realtimeLoop and getOrCreate by name (harvest.ts, NotionCard).          *)
(***************************************************************************)
OtherEntries == 2..MaxEntries

\* an entry as the poll returns it: its chain has not run yet
NewEntry(clients, named) ==
  [clients |-> clients, named |-> named, pc |-> "scan", result |-> 0,
   created |-> 0, wrote |-> {}]

\* no poll has run
PollIdle ==
  /\ iteration = "waiting"
  /\ entry = [NewEntry(0, {}) EXCEPT !.pc = "done"]
  /\ others = [e \in OtherEntries |-> "done"]
  /\ registry \in SUBSET Nodes
  /\ markers = {}

\* the task records that match the entry: those of a matching client whose
\* name matches
Candidates_anyClient(e) == e.named
Candidates(e) == IF e.clients = 0 THEN {} ELSE e.named

\* realtimeLoop(): the poll returns its entries and the chain of each one
\* starts
RealtimePoll ==
  /\ iteration = "waiting"
  /\ iteration' = "polling"
  /\ \E clients \in 0..1, named \in SUBSET Nodes : entry' = NewEntry(clients, named)
  /\ others' = [e \in OtherEntries |-> "running"]
  /\ UNCHANGED <<registry, markers>>

\* getOrCreate by name, the registry scan: a registered card that matches
\* the entry is returned as it is
Scan_queries ==
  /\ entry.pc = "scan"
  /\ entry' = [entry EXCEPT !.pc = "clients"]
  /\ UNCHANGED <<iteration, others, registry, markers>>
Scan ==
  /\ entry.pc = "scan"
  /\ LET found == registry \cap Candidates(entry) IN
     IF found # {}
     THEN \E r \in found : entry' = [entry EXCEPT !.pc = "update", !.result = r]
     ELSE entry' = [entry EXCEPT !.pc = "clients"]
  /\ UNCHANGED <<iteration, others, registry, markers>>

\* the client query returns: without a matching client, warn and return null
ClientsQueried ==
  /\ entry.pc = "clients"
  /\ entry' = [entry EXCEPT !.pc = IF entry.clients = 0 THEN "done" ELSE "tasks"]
  /\ UNCHANGED <<iteration, others, registry, markers>>

\* the task query returns: several cards are marked and null is returned,
\* no card returns null, one card is constructed and registered
TasksQueried ==
  /\ entry.pc = "tasks"
  /\ LET matching == Candidates(entry) IN
     IF Cardinality(matching) > 1
     THEN /\ entry' = [entry EXCEPT !.pc = "marking"]
          /\ UNCHANGED registry
     ELSE IF matching = {}
     THEN /\ entry' = [entry EXCEPT !.pc = "done"]
          /\ UNCHANGED registry
     ELSE \E r \in matching :
          /\ entry' = [entry EXCEPT !.pc = "update", !.result = r, !.created = r]
          /\ registry' = registry \cup {r}
  /\ UNCHANGED <<iteration, others, markers>>

\* Promise.all(cards.map(sendError)) is through: return null
Marked ==
  /\ entry.pc = "marking"
  /\ markers' = markers \cup Candidates(entry)
  /\ entry' = [entry EXCEPT !.pc = "done", !.wrote = @ \cup Candidates(entry)]
  /\ UNCHANGED <<iteration, others, registry>>

\* card.update("realtime") returns, with or without a write of the hours
Updated ==
  /\ entry.pc = "update"
  /\ \E w \in {{}, {entry.result}} :
       entry' = [entry EXCEPT !.pc = "done", !.wrote = @ \cup w]
  /\ UNCHANGED <<iteration, others, registry, markers>>

\* a read of the chain throws: the chain of the entry rejects
EntryFails ==
  /\ entry.pc \in {"clients", "tasks", "update"}
  /\ entry' = [entry EXCEPT !.pc = "failed"]
  /\ UNCHANGED <<iteration, others, registry, markers>>

\* the chain of another entry ends
OtherDone(e) ==
  /\ others[e] = "running"
  /\ others' = [others EXCEPT ![e] = "done"]
  /\ UNCHANGED <<iteration, entry, registry, markers>>

\* a read of the chain of another entry throws
OtherFails(e) ==
  /\ others[e] = "running"
  /\ others' = [others EXCEPT ![e] = "failed"]
  /\ UNCHANGED <<iteration, entry, registry, markers>>

AllDone == entry.pc = "done" /\ \A e \in OtherEntries : others[e] = "done"
SomeFailed == entry.pc = "failed" \/ \E e \in OtherEntries : others[e] = "failed"

\* await Promise.all(entries.map(...)) resolves: sendHeartbeat(), await
\* waiting, realtimeLoop()
IterationCompletes ==
  /\ iteration = "polling" /\ AllDone
  /\ iteration' = "waiting"
  /\ UNCHANGED <<entry, others, registry, markers>>

\* await Promise.all(entries.map(...)) rejects with the first chain that
\* rejects: realtimeLoop() rejects, and nothing calls it again
IterationRejects ==
  /\ iteration = "polling" /\ SomeFailed
  /\ iteration' = "ended"
  /\ UNCHANGED <<entry, others, registry, markers>>

PollNext ==
  \/ RealtimePoll
  \/ Scan
  \/ ClientsQueried
  \/ TasksQueried
  \/ Marked
  \/ Updated
  \/ EntryFails
  \/ \E e \in OtherEntries : OtherDone(e)
  \/ \E e \in OtherEntries : OtherFails(e)
  \/ IterationCompletes
  \/ IterationRejects

(***************************************************************************)
(* C13: when the entry matches more than one task record, getOrCreate      *)
(* returns no node, the entry's chain updates no card and writes no hours, *)
(* and at its end every matching record holds the error marker, whichever  *)
(* of the records are in the registry.                                     *)
(***************************************************************************)
C13_AmbiguousEntrySkipped ==
  Cardinality(Candidates(entry)) > 1 =>
     /\ entry.result = 0
     /\ entry.pc # "update"
     /\ entry.pc = "done" => Candidates(entry) \subseteq markers

C30_RegistryScanBeforeQuery ==
  [][/\ (entry.pc = "scan" /\ entry'.pc # "scan") =>
          LET found == registry \cap Candidates(entry) IN
          IF found # {}
          THEN entry'.pc = "update" /\ entry'.result \in found /\ registry' = registry
          ELSE entry'.pc = "clients"
     /\ (entry'.pc = "clients" /\ entry.pc # "clients") =>
          (entry.pc = "scan" /\ registry \cap Candidates(entry) = {})
     /\ (entry'.pc = "tasks" /\ entry.pc # "tasks") => entry.pc = "clients"
    ]_vars

\* the call has returned a node of the registry, found by the scan and not
\* by a query
C30_Witness ==
  /\ entry.pc = "update" /\ entry.created = 0
  /\ entry.result \in registry \cap Candidates(entry)

(***************************************************************************)
(* C15: a hard failure of a remote operation in the chain of one entry     *)
(* leaves realtimeLoop running: the loop does not end over a failed entry. *)
(***************************************************************************)
C15_FailureIsolated == SomeFailed => iteration # "ended"

\* the aggregation engine over records some of which do not parse
CardParseNext ==
  \/ CardNext
  \/ \E c \in calls : UpdateUnparsed(c)
  \/ \E c \in calls : CreateUnresolved(c)

\* the instances resolved for the child ids of an update call that is at its
\* child step: those found in the registry and those getOrCreate made
ResolvedFor(c) == c.got \cup ({d.card : d \in CreatesOf(c)} \ {None})

\* the child step of update call c is taken
ChildStep(c) == c.kind = "update" /\ c.pc = "children" /\ c \notin calls'

CardGoneNext ==
  \/ CardNext /\ (poll' # poll => rejected = {}) /\ UNCHANGED goneVars
  \/ \E c \in calls : FetchThrows(c)

(***************************************************************************)
(* C28: a record whose page read answers 404, in update or in getOrCreate  *)
(* by id of a parent or child, is dropped silently: no error reaches the   *)
(* caller of update and the other updates of the pass go on.  So the       *)
(* update of a time entry whose own record is there does not throw.        *)
(***************************************************************************)
C28_DeletedDroppedSilently ==
  \A e \in DOMAIN world.entries :
     world.entries[e] \notin deleted => <<e, world.entries[e]>> \notin rejected

\* the hours an instance of record id is constructed with: none by name,
\* the hours of its name by id
InitialHours(key) == IF key[1] = 0 THEN 0 ELSE world.hours[cards[key].id]

(***************************************************************************)
(* C18: an update of a record whose page does not parse returns without    *)
(* doing anything: the update call goes no further than its page read, no  *)
(* write of the record is queued or made, no child or parent is resolved   *)
(* and no parent updated on its behalf, and localHours and childHours of   *)
(* its instances stay as constructed.                                      *)
(***************************************************************************)
C18_UnparsedUpdateDoesNothing ==
  \A n \in unparsable :
     /\ \A c \in calls : (c.kind = "update" /\ c.node = n) => c.pc \in {"getPage", "done"}
     /\ \A c \in calls : \A i \in 2..(Len(c.path) - 1) : c.path[i] # n
     /\ \A i \in DOMAIN writeQueue : writeQueue[i].id # n
     /\ \A k \in DOMAIN cards : cards[k].id = n =>
           (cards[k].localHours = InitialHours(k) /\ cards[k].childHours = 0)

\* a poll is over whose entry names a record that does not parse: its
\* instance was constructed by name and updated, and holds no hours
C18_Witness ==
  /\ poll > 0 /\ calls = {}
  /\ \E n \in unparsable :
        /\ world.entries[1] = n
        /\ allCards[n] # None
        /\ cards[allCards[n]].localHours = 0

(***************************************************************************)
(* withRetry (notion.ts, and the time-tracking wrapper).                   *)
(***************************************************************************)
\* the default of the parameter maxRetries
maxRetries == 10

Results == {"a", "b"}
NoResult == "none"

\* withRetry is called: attempt = 1, operation() is awaited
RetryInit ==
  /\ provider \in {"notion", "harvest"}
  /\ attempt = 1
  /\ rpc = "call"
  /\ tries = << >>
  /\ delays = << >>
  /\ returned = NoResult
  /\ raised = 0
  /\ abandoned = {}

Try(outcome, result) == [outcome |-> outcome, result |-> result]

\* return await operation(): the attempt resolves
AttemptReturns(result) ==
  /\ rpc = "call"
  /\ tries' = Append(tries, Try("ok", result))
  /\ returned' = result
  /\ rpc' = "returned"
  /\ UNCHANGED <<provider, attempt, delays, raised, abandoned>>

\* the attempt rejects with a timeout error: rethrown on the last attempt,
\* followed by a wait otherwise.  The time-tracking wrapper's own timeout
\* leaves the operation running.
AttemptTimesOut_oneMore ==
  /\ rpc = "call"
  /\ tries' = Append(tries, Try("timeout", NoResult))
  /\ abandoned' = IF provider = "harvest" THEN abandoned \cup {attempt} ELSE abandoned
  /\ IF attempt > maxRetries
     THEN raised' = attempt /\ rpc' = "raised"
     ELSE raised' = raised /\ rpc' = "delay"
  /\ UNCHANGED <<provider, attempt, delays, returned>>
AttemptTimesOut ==
  /\ rpc = "call"
  /\ tries' = Append(tries, Try("timeout", NoResult))
  /\ abandoned' = IF provider = "harvest" THEN abandoned \cup {attempt} ELSE abandoned
  /\ IF attempt >= maxRetries
     THEN raised' = attempt /\ rpc' = "raised"
     ELSE raised' = raised /\ rpc' = "delay"
  /\ UNCHANGED <<provider, attempt, delays, returned>>

\* the attempt rejects with another error: throw error
AttemptThrows_retried ==
  /\ rpc = "call"
  /\ tries' = Append(tries, Try("error", NoResult))
  /\ IF attempt >= maxRetries
     THEN raised' = attempt /\ rpc' = "raised"
     ELSE raised' = raised /\ rpc' = "delay"
  /\ UNCHANGED <<provider, attempt, delays, returned, abandoned>>
AttemptThrows ==
  /\ rpc = "call"
  /\ tries' = Append(tries, Try("error", NoResult))
  /\ raised' = attempt
  /\ rpc' = "raised"
  /\ UNCHANGED <<provider, attempt, delays, returned, abandoned>>

\* the wait of baseDelay * attempt is over: attempt++, operation() again
DelayOver ==
  /\ rpc = "delay"
  /\ delays' = Append(delays, attempt)
  /\ attempt' = attempt + 1
  /\ rpc' = "call"
  /\ UNCHANGED <<provider, tries, returned, raised, abandoned>>

\* an operation whose attempt timed out in the wrapper settles; nothing
\* awaits it any more
AbandonedSettles(k) ==
  /\ k \in abandoned
  /\ abandoned' = abandoned \ {k}
  /\ UNCHANGED <<provider, attempt, rpc, tries, delays, returned, raised>>

RetryNext ==
  \/ \E result \in Results : AttemptReturns(result)
  \/ AttemptTimesOut
  \/ AttemptThrows
  \/ DelayOver
  \/ \E k \in abandoned : AbandonedSettles(k)

\* the attempts that ended as outcome
TriesOf(outcome) == {k \in DOMAIN tries : tries[k].outcome = outcome}

(***************************************************************************)
(* C16: withRetry makes at most maxRetries attempts.  When every attempt   *)
(* timed out and it raised, it made exactly maxRetries attempts and raised *)
(* the error of the last one; an attempt that succeeds is the last one,    *)
(* and its result is what withRetry returns.                               *)
(***************************************************************************)
C16_BoundedAttempts ==
  /\ Len(tries) <= maxRetries
  /\ (rpc = "raised" /\ TriesOf("timeout") = DOMAIN tries) =>
        (Len(tries) = maxRetries /\ raised = maxRetries)
  /\ \A k \in TriesOf("ok") :
        /\ k = Len(tries)
        /\ rpc = "returned" /\ returned = tries[k].result

\* every attempt timed out and the last timeout was raised
C16_Witness ==
  rpc = "raised" /\ TriesOf("timeout") = DOMAIN tries /\ raised = maxRetries

(***************************************************************************)
(* C17: an attempt that fails with an error that is not a timeout ends     *)
(* withRetry: that error is raised, no wait and no attempt follows it,     *)
(* however many timeouts came before.                                      *)
(***************************************************************************)
C17_NonTimeoutRaisedAtOnce ==
  \A k \in TriesOf("error") :
     /\ k = Len(tries)
     /\ rpc = "raised" /\ raised = k
     /\ Len(delays) = k - 1

\* an error that is not a timeout was raised after two timeouts
C17_Witness ==
  /\ rpc = "raised" /\ Len(tries) > 2
  /\ tries[Len(tries)].outcome = "error"

(***************************************************************************)
(* Task-name matching (util.ts).                                           *)
(***************************************************************************)
\* the longest name drawn from Chars
MaxLen == 3

\* the characters names are drawn from: a letter in both cases, blank,
\* line feed, brackets and parentheses
Chars == {"b", "B", " ", "\n", "[", "]", "(", ")"}

RECURSIVE NamesUpTo(_)
NamesUpTo(n) ==
  IF n = 0 THEN {<< >>}
  ELSE LET shorter == NamesUpTo(n - 1) IN
       shorter \cup {Append(name, c) : name \in shorter, c \in Chars}

Design == <<"[", "D", "e", "s", "i", "g", "n", "]", " ">>
BuildLoginPage == <<"B", "u", "i", "l", "d", " ", "l", "o", "g", "i", "n", " ", "p", "a", "g", "e">>
DesignBuildLoginPage == Design \o BuildLoginPage
buildLoginPage == <<"b">> \o Tail(BuildLoginPage)
DesignReview == <<"D", "e", "s", "i", "g", "n", " ", "r", "e", "v", "i", "e", "w">>

\* names longer than MaxLen: the examples of the task-name rule, a note with
\* a second line, two segments, a digit
Examples ==
  {DesignBuildLoginPage, buildLoginPage, DesignReview, BuildLoginPage,
   <<"b", "\r", "\n", "B">>, <<"[", "B", "]", "b", "(", "b", ")", "1">>, <<"b", "1">>}

\* the names the second argument is drawn from: the examples, and the empty
\* name and those of one character
Probes == NamesUpTo(1) \cup Examples

Whitespace == {" ", "\t", "\n", "\r"}
Upper == <<"A", "B", "C", "D", "E", "F", "G", "H", "I", "J", "K", "L", "M",
           "N", "O", "P", "Q", "R", "S", "T", "U", "V", "W", "X", "Y", "Z">>
Lower == <<"a", "b", "c", "d", "e", "f", "g", "h", "i", "j", "k", "l", "m",
           "n", "o", "p", "q", "r", "s", "t", "u", "v", "w", "x", "y", "z">>
Digits == {"0", "1", "2", "3", "4", "5", "6", "7", "8", "9"}

\* no matcher has been called
MatchIdle == nameA = << >> /\ nameB = << >> /\ matched = "pending"

MatchInit ==
  /\ nameA \in NamesUpTo(MaxLen) \cup Examples
  /\ nameB \in Probes
  /\ matched = "pending"

RECURSIVE trimStart(_)
trimStart(s) ==
  IF s # << >> /\ Head(s) \in Whitespace THEN trimStart(Tail(s)) ELSE s
RECURSIVE trimEnd(_)
trimEnd(s) ==
  IF s # << >> /\ s[Len(s)] \in Whitespace THEN trimEnd(Front(s)) ELSE s
\* name.trim()
trim(s) == trimEnd(trimStart(s))

\* .split(/\r?\n/)[0] ?? ""
firstLine_whole(s) == s
firstLine(s) ==
  IF \E i \in DOMAIN s : s[i] = "\n"
  THEN LET n == CHOOSE i \in DOMAIN s : s[i] = "\n" /\ \A j \in 1..(i - 1) : s[j] # "\n" IN
       SubSeq(s, 1, IF n > 1 /\ s[n - 1] = "\r" THEN n - 2 ELSE n - 1)
  ELSE s

RECURSIVE replace(_, _, _)
\* .replace(/\[[^\]]*\]/g, "") for open = "[", close = "]", and
\* .replace(/\([^)]*\)/g, "") for the parentheses: scanning from the left,
\* an opening character with a closing one after it is dropped together
\* with everything up to the first closing one
replace(s, open, close) ==
  IF s = << >> THEN << >>
  ELSE IF Head(s) = open /\ \E i \in 2..Len(s) : s[i] = close
       THEN LET c == CHOOSE i \in 2..Len(s) : s[i] = close /\ \A j \in 2..(i - 1) : s[j] # close IN
            replace(SubSeq(s, c + 1, Len(s)), open, close)
       ELSE <<Head(s)>> \o replace(Tail(s), open, close)

\* .toLowerCase(), of one character and of a string
LowerOf(c) ==
  IF \E i \in DOMAIN Upper : Upper[i] = c
  THEN Lower[CHOOSE i \in DOMAIN Upper : Upper[i] = c]
  ELSE c
toLowerCase(s) == [i \in DOMAIN s |-> LowerOf(s[i])]

\* the characters /[^a-z0-9]/ does not match
IsAlnum(c) == c \in Digits \/ \E i \in DOMAIN Lower : Lower[i] = c

\* normalize of taskNamesMatch
normalize(name) ==
  LET withoutInlineDetails == replace(replace(firstLine(trim(name)), "[", "]"), "(", ")") IN
  SelectSeq(toLowerCase(withoutInlineDetails), IsAlnum)

taskNamesMatch(a, b) ==
  IF a = << >> \/ b = << >> THEN FALSE ELSE normalize(a) = normalize(b)

\* taskNamesMatch(nameA, nameB)
MatchAB ==
  /\ matched = "pending"
  /\ matched' = IF taskNamesMatch(nameA, nameB) THEN "true" ELSE "false"
  /\ UNCHANGED <<nameA, nameB>>

\* taskNamesMatch(nameB, nameA): the arguments change places
MatchBA ==
  /\ matched = "pending"
  /\ nameA' = nameB /\ nameB' = nameA
  /\ matched' = IF taskNamesMatch(nameB, nameA) THEN "true" ELSE "false"

MatchNext == MatchAB \/ MatchBA

\* the characters of s at the positions P, in their order
Pick(s, P) ==
  [k \in 1..Cardinality(P) |->
     s[CHOOSE i \in P : Cardinality({j \in P : j < i}) = k - 1]]

\* position i of s lies in a segment from an opening character to the next
\* closing one
InSegment(s, i, open, close) ==
  \E o \in 1..i :
     /\ s[o] = open
     /\ \A j \in (o + 1)..(i - 1) : s[j] # close
     /\ \E c \in i..Len(s) : c > o /\ s[c] = close

WithoutSegments(s, open, close) ==
  Pick(s, {i \in DOMAIN s : ~InSegment(s, i, open, close)})

\* s up to its first line feed
FirstLineOf(s) == Pick(s, {i \in DOMAIN s : \A j \in 1..i : s[j] # "\n"})

\* s from its first to its last character that is not white space
Trimmed(s) ==
  Pick(s, {i \in DOMAIN s : /\ \E j \in 1..i : s[j] \notin Whitespace
                            /\ \E j \in i..Len(s) : s[j] \notin Whitespace})

\* the normalized form as the rule describes it: the first line, without
\* its [...] and (...) segments, in lower case, letters and digits only
NormalForm(s) ==
  LET line == WithoutSegments(WithoutSegments(FirstLineOf(s), "[", "]"), "(", ")")
      kept == Pick(line, {i \in DOMAIN line : IsAlnum(LowerOf(line[i]))})
  IN [i \in DOMAIN kept |-> LowerOf(kept[i])]

\* the two examples of the rule
ExamplesHold ==
  /\ (nameA = DesignBuildLoginPage /\ nameB = buildLoginPage) => matched = "true"
  /\ (nameA = DesignReview /\ nameB = BuildLoginPage) => matched = "false"

(***************************************************************************)
(* C20, as stated: taskNamesMatch(a, b) is true exactly when both names    *)
(* are non-empty and the normalized forms of the names (first line,        *)
(* segments removed, lower case, letters and digits only) are equal.       *)
(***************************************************************************)
C20_MatchIffNormalFormsEqual ==
  matched # "pending" =>
     /\ (matched = "true") <=>
           (/\ nameA # << >> /\ nameB # << >>
            /\ NormalForm(nameA) = NormalForm(nameB))
     /\ ExamplesHold

(***************************************************************************)
(* C20, amended: taskNamesMatch(a, b) is true exactly when both names are  *)
(* non-empty and the normalized forms of the names with the white space at *)
(* their ends removed are equal.                                           *)
(***************************************************************************)
C20_MatchIffTrimmedNormalFormsEqual ==
  matched # "pending" =>
     /\ (matched = "true") <=>
           (/\ nameA # << >> /\ nameB # << >>
            /\ NormalForm(Trimmed(nameA)) = NormalForm(Trimmed(nameB)))
     /\ ExamplesHold

\* "[Design] Build login page" was matched with "build login page"
C20_Witness ==
  nameA = DesignBuildLoginPage /\ nameB = buildLoginPage /\ matched = "true"

(***************************************************************************)
(* Client-name matching (util.ts).                                         *)
(***************************************************************************)
\* the characters client names are drawn from
ClientChars == {"a", "A", "c", " "}

RECURSIVE ClientNamesUpTo(_)
ClientNamesUpTo(n) ==
  IF n = 0 THEN {<< >>}
  ELSE LET shorter == ClientNamesUpTo(n - 1) IN
       shorter \cup {Append(name, c) : name \in shorter, c \in ClientChars}

ReformInternalTasks == <<"r", "e", "f", "o", "r", "m", " ", "i", "n", "t", "e", "r", "n", "a", "l", " ", "t", "a", "s", "k", "s">>
ReformCollective == <<"r", "e", "f", "o", "r", "m", " ", "c", "o", "l", "l", "e", "c", "t", "i", "v", "e">>
FluidProduct == <<"f", "l", "u", "i", "d", " ", "(", "p", "r", "o", "d", "u", "c", "t", ")">>
Fluid == <<"f", "l", "u", "i", "d">>
JillionLlc == <<"j", "i", "l", "l", "i", "o", "n", " ", "l", "l", "c">>
Century == <<"c", "e", "n", "t", "u", "r", "y">>
InsideMilk == <<"i", "n", "s", "i", "d", "e", " ", "m", "i", "l", "k">>
MilkInside == <<"m", "i", "l", "k", " ", "i", "n", "s", "i", "d", "e">>
NewForm == <<"n", "e", "w", " ", "f", "o", "r", "m">>
Newform == <<"n", "e", "w", "f", "o", "r", "m">>
AcmeCorp == <<"A", "c", "m", "e", " ", "C", "o", "r", "p">>
acme == <<"a", "c", "m", "e">>

\* longer client names: the names of the alias table and their targets, in
\* other case, padded, and extended; the example of the rule
ClientExamples ==
  {ReformInternalTasks, ReformCollective, FluidProduct, Fluid, JillionLlc, Century,
   InsideMilk, MilkInside, NewForm, Newform, AcmeCorp, acme,
   <<" ", "J">> \o Tail(JillionLlc) \o <<" ">>,
   <<"C">> \o Tail(Century) \o <<" ", "a">>,
   Fluid \o <<" ", "a">>,
   <<"a", " ">> \o NewForm \o <<" ">> \o NewForm,
   <<"a", " ">> \o Newform \o <<" ">> \o Newform \o <<"a">>}

ClientProbes == ClientNamesUpTo(2) \cup ClientExamples

ClientMatchInit ==
  /\ nameA \in ClientNamesUpTo(MaxLen) \cup ClientExamples
  /\ nameB \in ClientProbes
  /\ matched = "pending"

\* a.startsWith(b)
startsWith_same(a, b) == a = b
startsWith(a, b) == Len(b) <= Len(a) /\ SubSeq(a, 1, Len(b)) = b

RECURSIVE replaceAll(_, _, _)
\* s.replaceAll(pattern, replacement), pattern a non-empty string
replaceAll(s, pattern, replacement) ==
  IF s = << >> THEN << >>
  ELSE IF startsWith(s, pattern)
       THEN replacement \o replaceAll(SubSeq(s, Len(pattern) + 1, Len(s)), pattern, replacement)
       ELSE <<Head(s)>> \o replaceAll(Tail(s), pattern, replacement)

processClientName(name) ==
  LET basic == toLowerCase(trim(name)) IN
  IF basic = ReformInternalTasks THEN ReformCollective
  ELSE IF basic = FluidProduct THEN Fluid
  ELSE IF basic = JillionLlc THEN Century
  ELSE IF basic = InsideMilk THEN MilkInside
  ELSE replaceAll(basic, NewForm, Newform)

clientNamesMatch(a, b) ==
  LET pa == processClientName(a)
      pb == processClientName(b)
  IN startsWith(pa, pb) \/ startsWith(pb, pa)

\* clientNamesMatch(nameA, nameB)
ClientMatchAB ==
  /\ matched = "pending"
  /\ matched' = IF clientNamesMatch(nameA, nameB) THEN "true" ELSE "false"
  /\ UNCHANGED <<nameA, nameB>>

\* clientNamesMatch(nameB, nameA): the arguments change places
ClientMatchBA ==
  /\ matched = "pending"
  /\ nameA' = nameB /\ nameB' = nameA
  /\ matched' = IF clientNamesMatch(nameB, nameA) THEN "true" ELSE "false"

ClientMatchNext == ClientMatchAB \/ ClientMatchBA

\* the alias table: the names it replaces
AliasTable ==
  {<<ReformInternalTasks, ReformCollective>>, <<FluidProduct, Fluid>>,
   <<JillionLlc, Century>>, <<InsideMilk, MilkInside>>}

\* the name after trimming and lowercasing, replaced by the table's entry
\* for it when there is one; otherwise every "new form" in it is joined
Aliased(name) ==
  LET basic == Trimmed(name)
      lowered == [i \in DOMAIN basic |-> LowerOf(basic[i])]
  IN IF \E alias \in AliasTable : alias[1] = lowered
     THEN (CHOOSE alias \in AliasTable : alias[1] = lowered)[2]
     ELSE replaceAll(lowered, NewForm, Newform)

\* a is the beginning of b
IsPrefix(a, b) ==
  /\ Len(a) <= Len(b)
  /\ \A i \in DOMAIN a : a[i] = b[i]

(***************************************************************************)
(* C21: clientNamesMatch(a, b) is true exactly when, of the two names      *)
(* trimmed, lowercased and replaced by the alias table, one is the         *)
(* beginning of the other; the call with the arguments exchanged gives the *)
(* same result; "Acme Corp" matches "acme".                                *)
(***************************************************************************)
C21_ClientPrefixMatch ==
  matched # "pending" =>
     /\ (matched = "true") <=>
           (IsPrefix(Aliased(nameA), Aliased(nameB)) \/ IsPrefix(Aliased(nameB), Aliased(nameA)))
     /\ (matched = "true") <=> clientNamesMatch(nameB, nameA)
     /\ (nameA = AcmeCorp /\ nameB = acme) => matched = "true"

\* "Acme Corp" was matched with "acme"
C21_Witness ==
  nameA = AcmeCorp /\ nameB = acme /\ matched = "true"

(***************************************************************************)
(* Requests sent under a permit (notion.ts, heartbeat.ts): the caller      *)
(* awaits the permit once and passes the request to withRetry, which sends *)
(* it again after each timeout.                                            *)
(***************************************************************************)
SendIdle == resent = << >>

\* baseDelay (1000 ms) in waits of a credential queue (1000 / 3 ms)
BaseDelay == 3 * WaitTicks

\* the attempts made for request i, and the time of the last one
Attempts(i) == 1 + Cardinality({k \in DOMAIN resent : resent[k].req = i})
LastSent(i) ==
  IF Attempts(i) = 1 THEN reqs[i].at
  ELSE resent[CHOOSE k \in DOMAIN resent :
                /\ resent[k].req = i /\ resent[k].attempt = Attempts(i)].at

\* withRetry: the last attempt of request i has timed out and the wait of
\* baseDelay * attempt is over: operation() is called again, with the
\* client the permit came with
Resend(i) ==
  /\ reqs[i].order > 0
  /\ Attempts(i) < maxRetries
  /\ now - LastSent(i) >= BaseDelay * Attempts(i)
  /\ resent' = Append(resent, [req |-> i, attempt |-> Attempts(i) + 1, at |-> now])
  /\ UNCHANGED limitVars

\* reads of the workspace, their permits and their retries
SendNext ==
  \/ (\E t \in UsedTypes : Read(t)) /\ UNCHANGED sendVars
  \/ (\E q \in Clients : QueueTick(q)) /\ UNCHANGED sendVars
  \/ Tick /\ UNCHANGED sendVars
  \/ \E i \in DOMAIN reqs : Resend(i)

\* the requests sent with the credential of queue q at the times t .. t + w - 1
SentIn(q, t, w) ==
  Cardinality(GrantsIn(q, t, w))
    + Cardinality({k \in DOMAIN resent : /\ reqs[resent[k].req].queue = q
                                         /\ resent[k].at >= t /\ resent[k].at < t + w})

(***************************************************************************)
(* C22: every request sent to a provider, each retry attempt included, is  *)
(* sent under a permit of its own, so that the requests sent with one      *)
(* credential keep to the ceiling of its limiter: a window of k waits      *)
(* holds at most k of them.                                                *)
(***************************************************************************)
C22_SendRateCeiling ==
  \A q \in Clients, k \in 1..(MaxTime + 1), t \in 0..MaxTime :
     SentIn(q, t, k * WaitTicks) <= k

(***************************************************************************)
(* The comparison of update with the stored hours (part_001, notion.ts).   *)
(***************************************************************************)
\* the most hours of a record and of its children, in tenths
MaxTenths == 3

\* a number: the double nearest to tenths / 10, or (exact = FALSE) the
\* double next to it that a sum came out as
Float(tenths) == [tenths |-> tenths, exact |-> TRUE]
NotANumber == Float(NaN)

\* the pairs of tenths a, b up to 7 for which the sum of the doubles nearest
\* to a / 10 and b / 10 is not the double nearest to (a + b) / 10
InexactSums ==
  {<<1, 2>>, <<2, 1>>, <<1, 7>>, <<7, 1>>, <<2, 4>>, <<4, 2>>, <<2, 7>>, <<7, 2>>,
   <<3, 6>>, <<6, 3>>, <<6, 7>>, <<7, 6>>}

\* this.localHours + this.childHours
Plus(a, b) == [tenths |-> a + b, exact |-> <<a, b>> \notin InexactSums]

\* a === b
StrictEquals(x, y) == x # NotANumber /\ y # NotANumber /\ x = y

\* Math.round(hours * 100) / 100
Round2(x) == Float(x.tenths)

CompareIdle ==
  /\ localHours = 0 /\ childHours = 0 /\ previousHours = NotANumber
  /\ decision = "pending" /\ roundedHours = NaN

\* update has read the page and computed its two sums
CompareInit ==
  /\ localHours \in 0..MaxTenths
  /\ childHours \in 0..MaxTenths
  /\ previousHours \in {NotANumber} \cup {Float(t) : t \in 0..(2 * MaxTenths)}
  /\ decision = "pending" /\ roundedHours = NaN

\* update: newHours === previousHours returns; otherwise updateHours
\* writes roundedHours
CompareAndWrite ==
  /\ decision = "pending"
  /\ LET newHours == Plus(localHours, childHours) IN
     IF StrictEquals(newHours, previousHours)
     THEN decision' = "skip" /\ roundedHours' = roundedHours
     ELSE decision' = "write" /\ roundedHours' = Round2(newHours).tenths
  /\ UNCHANGED <<localHours, childHours, previousHours>>

(***************************************************************************)
(* C26: update skips the write exactly when the total (localHours +        *)
(* childHours) rounded to 2 decimals equals the number parsed from the     *)
(* stored text; otherwise, also when the text holds no number, it writes   *)
(* the rounded total.                                                      *)
(***************************************************************************)
C26_SkipIffRoundedEqual ==
  decision # "pending" =>
     /\ (decision = "skip") <=>
           StrictEquals(Round2(Plus(localHours, childHours)), previousHours)
     /\ (decision = "write") => roundedHours = localHours + childHours

(***************************************************************************)
(* The hours of a task in the time tracker (harvest.ts, heartbeat.ts).     *)
(***************************************************************************)
\* the most time entries of the tracker
MaxTimeEntries == 2
\* the clients of the tracker
NumAccounts == 2

\* names of clients and of projects: "a" is a prefix of "ac", "c" of neither
AccountNames == {<<"a">>, <<"a", "c">>, <<"c">>}
\* notes and task names: "b" and "B" match each other, not "bb"
NoteTexts == {<<"b">>, <<"B">>, <<"b", "b">>}

TimeEntry == [client_id : 1..NumAccounts, notes : NoteTexts, hours : 1..2]

HoursIdle ==
  /\ allClients = << >> /\ timeEntries = << >>
  /\ taskName = << >> /\ clientName = << >> /\ totalHours = NaN

HoursInit ==
  /\ allClients \in [1..NumAccounts -> AccountNames]
  /\ timeEntries \in UNION {[1..k -> TimeEntry] : k \in 0..MaxTimeEntries}
  /\ taskName \in {<<"b">>, <<"b", "b">>}
  /\ clientName \in {<<"a">>, <<"c">>}
  /\ totalHours = NaN

\* no client: allClients.find(...) is undefined
NoClient == 0

\* allClients.find((c) => clientNamesMatch(c.name, clientName)): the first
\* client that matches
find(clients, name) ==
  LET matching == {i \in DOMAIN clients : clientNamesMatch(clients[i], name)} IN
  IF matching = {} THEN {}
  ELSE {CHOOSE i \in matching : \A j \in matching : i <= j}

\* harvest.timeEntries.list({client_id}): the places of the entries of the
\* client, and of all entries when client_id is undefined (realtimeLoop
\* lists the entries of all clients by leaving client_id out)
listTimeEntries(client_id) ==
  IF client_id = NoClient THEN DOMAIN timeEntries
  ELSE {i \in DOMAIN timeEntries : timeEntries[i].client_id = client_id}

\* runGetHoursByName: Math.round(totalTime * 100) / 100 of a sum of tenths
\* is the sum in tenths
GetHoursByName ==
  /\ totalHours = NaN
  /\ LET found == find(allClients, clientName)
         client_id == IF found = {} THEN NoClient ELSE CHOOSE i \in found : TRUE
         allEntries == listTimeEntries(client_id)
         allMatchingEntries ==
           {i \in allEntries : taskNamesMatch(timeEntries[i].notes, taskName)}
     IN totalHours' =
          SumOver(allMatchingEntries, [i \in allMatchingEntries |-> timeEntries[i].hours])
  /\ UNCHANGED <<allClients, timeEntries, taskName, clientName>>

\* the entries the sum is said to be taken over
EntriesOfTask ==
  {i \in DOMAIN timeEntries :
     /\ clientNamesMatch(allClients[timeEntries[i].client_id], clientName)
     /\ taskNamesMatch(timeEntries[i].notes, taskName)}

(***************************************************************************)
(* C27: getHoursByName returns the sum of the hours of exactly the time    *)
(* entries whose client matches the project and whose notes match the task *)
(* name, and 0 when there are none, also when no client of the tracker     *)
(* matches the project.                                                    *)
(***************************************************************************)
C27_SumOfMatchingEntries ==
  totalHours # NaN =>
     totalHours = SumOver(EntriesOfTask, [i \in EntriesOfTask |-> timeEntries[i].hours])

(***************************************************************************)
(* The last-progress timestamp (heartbeat.ts, notion.ts, harvest.ts).      *)
(***************************************************************************)
\* the clock stops here
MaxClock == 3

BeatIdle ==
  /\ wallClock = 0 /\ lastHeartbeat = 0 /\ writesInFlight = 0
  /\ polling = FALSE /\ lastEvent = "start"

\* let lastHeartbeat = Date.now(), and startWatching() has called
\* realtimeLoop()
BeatInit ==
  /\ wallClock = 0 /\ lastHeartbeat = 0 /\ writesInFlight = 0
  /\ polling = TRUE /\ lastEvent = "start"

\* sendHeartbeat(): lastHeartbeat = Date.now()
sendHeartbeatNow == lastHeartbeat' = wallClock

\* time passes
ClockTick ==
  /\ wallClock < MaxClock
  /\ wallClock' = wallClock + 1
  /\ lastEvent' = "tick"
  /\ UNCHANGED <<lastHeartbeat, writesInFlight, polling>>

\* update: the total differs from the stored one, updateHours is called
UpdateWrites ==
  /\ writesInFlight < MaxWrites
  /\ writesInFlight' = writesInFlight + 1
  /\ lastEvent' = "write"
  /\ UNCHANGED <<wallClock, lastHeartbeat, polling>>

\* update: the total is the stored one, return without a write
UpdateSkips ==
  /\ lastEvent' = "skip"
  /\ UNCHANGED <<wallClock, lastHeartbeat, writesInFlight, polling>>

\* runUpdateHours: pages.update has answered: pageCache.set, sendHeartbeat()
UpdateHoursSucceeds ==
  /\ writesInFlight > 0
  /\ writesInFlight' = writesInFlight - 1
  /\ sendHeartbeatNow
  /\ lastEvent' = "written"
  /\ UNCHANGED <<wallClock, polling>>

\* runUpdateHours: pages.update has thrown: warn, throw e
UpdateHoursFails_beats ==
  /\ writesInFlight > 0
  /\ writesInFlight' = writesInFlight - 1
  /\ sendHeartbeatNow
  /\ lastEvent' = "writeFailed"
  /\ UNCHANGED <<wallClock, polling>>
UpdateHoursFails ==
  /\ writesInFlight > 0
  /\ writesInFlight' = writesInFlight - 1
  /\ lastEvent' = "writeFailed"
  /\ UNCHANGED <<wallClock, lastHeartbeat, polling>>

\* getPage, queryDatabase, getHoursByName, listTimeEntries: a read answers
ReadAnswers ==
  /\ lastEvent' = "read"
  /\ UNCHANGED <<wallClock, lastHeartbeat, writesInFlight, polling>>

\* realtimeLoop: the chains of the entries are through: sendHeartbeat()
IterationBeats ==
  /\ polling
  /\ polling' = FALSE
  /\ sendHeartbeatNow
  /\ lastEvent' = "polled"
  /\ UNCHANGED <<wallClock, writesInFlight>>

\* realtimeLoop: await waiting is over, realtimeLoop() again
IterationStarts ==
  /\ ~polling
  /\ polling' = TRUE
  /\ lastEvent' = "poll"
  /\ UNCHANGED <<wallClock, lastHeartbeat, writesInFlight>>

BeatNext ==
  \/ ClockTick
  \/ UpdateWrites
  \/ UpdateSkips
  \/ UpdateHoursSucceeds
  \/ UpdateHoursFails
  \/ ReadAnswers
  \/ IterationBeats
  \/ IterationStarts

(***************************************************************************)
(* C31: the last-progress timestamp is set to the current time exactly     *)
(* when an hours write succeeds or an iteration of the realtime loop       *)
(* completes; nothing else the program does changes it (not a failed       *)
(* write, a skipped write or a read), and it never decreases.              *)
(***************************************************************************)
C31_HeartbeatExactlyOnProgress ==
  [][/\ lastEvent' \in {"written", "polled"} => lastHeartbeat' = wallClock'
     /\ lastEvent' \notin {"written", "polled"} => lastHeartbeat' = lastHeartbeat
     /\ lastHeartbeat' >= lastHeartbeat
    ]_vars

\* a write has failed some time after the last progress
C31_Witness ==
  lastEvent = "writeFailed" /\ 0 < lastHeartbeat /\ lastHeartbeat < wallClock

(***************************************************************************)
(* The bulk loop (harvest.ts).                                             *)
(***************************************************************************)
\* the most entries a bulk run lists
MaxBulkEntries == 12
\* the bulk runs explored
MaxBulkRuns == 2
\* the ticks of the hour between two runs
HourTicks == 2

\* const chunkSize = 10
chunkSize == 10

\* no timeout is set
NoTimer == -1

BulkIdle ==
  /\ bulkPc = "ended" /\ bulkEntries = 0 /\ bulkIndex = 0 /\ chunkPending = 0
  /\ bulkTimer = NoTimer /\ bulkRuns = 0 /\ bulkActive = 0

\* startWatching(): runScheduledBulkUpdate() up to its first await
BulkInit ==
  /\ bulkPc = "listing" /\ bulkEntries = 0 /\ bulkIndex = 0 /\ chunkPending = 0
  /\ bulkTimer = NoTimer /\ bulkRuns = 1 /\ bulkActive = 1

\* entries.slice(i, i + chunkSize).length
ChunkAt(i, total) == IF total - i < chunkSize THEN total - i ELSE chunkSize

\* setTimeout(runScheduledBulkUpdate, 60 * 60 * 1000), and the run returns
Schedule ==
  /\ bulkPc' = "ended" /\ bulkTimer' = HourTicks /\ bulkActive' = bulkActive - 1
  /\ chunkPending' = 0

\* processBulkUpdate from index i on: the chains of the next chunk start, or
\* the loop is over and the next run is scheduled
ProcessFrom(i, total) ==
  /\ bulkIndex' = i
  /\ IF i < total
     THEN /\ bulkPc' = "chunk" /\ chunkPending' = ChunkAt(i, total)
          /\ UNCHANGED <<bulkTimer, bulkActive>>
     ELSE Schedule

\* listTimeEntries answers with the entries of the last 3 months
BulkListed ==
  /\ bulkPc = "listing"
  /\ \E total \in 0..MaxBulkEntries :
        /\ bulkEntries' = total
        /\ ProcessFrom(0, total)
  /\ UNCHANGED bulkRuns

\* listTimeEntries throws: runScheduledBulkUpdate rejects
BulkListFails ==
  /\ bulkPc = "listing"
  /\ bulkPc' = "rejected" /\ bulkActive' = bulkActive - 1
  /\ UNCHANGED <<bulkEntries, bulkIndex, chunkPending, bulkTimer, bulkRuns>>

\* getOrCreate and update of one entry of the chunk return
ChainDone ==
  /\ bulkPc = "chunk" /\ chunkPending > 0
  /\ chunkPending' = chunkPending - 1
  /\ UNCHANGED <<bulkPc, bulkEntries, bulkIndex, bulkTimer, bulkRuns, bulkActive>>

\* getOrCreate or update of one entry of the chunk throws: Promise.all
\* rejects, and processBulkUpdate and runScheduledBulkUpdate with it
ChainFails ==
  /\ bulkPc = "chunk" /\ chunkPending > 0
  /\ bulkPc' = "rejected" /\ bulkActive' = bulkActive - 1
  /\ chunkPending' = chunkPending - 1
  /\ UNCHANGED <<bulkEntries, bulkIndex, bulkTimer, bulkRuns>>

\* await Promise.all(chunk.map(...)) resolves: i += chunkSize
ChunkDone ==
  /\ bulkPc = "chunk" /\ chunkPending = 0
  /\ ProcessFrom(bulkIndex + chunkSize, bulkEntries)
  /\ UNCHANGED <<bulkEntries, bulkRuns>>

\* a tick of the hour passes
HourTick ==
  /\ bulkTimer > 0
  /\ bulkTimer' = bulkTimer - 1
  /\ UNCHANGED <<bulkPc, bulkEntries, bulkIndex, chunkPending, bulkRuns, bulkActive>>

\* the timeout fires: runScheduledBulkUpdate() up to its first await
BulkAgain ==
  /\ bulkTimer = 0 /\ bulkRuns < MaxBulkRuns
  /\ bulkTimer' = NoTimer
  /\ bulkPc' = "listing" /\ bulkRuns' = bulkRuns + 1 /\ bulkActive' = bulkActive + 1
  /\ bulkEntries' = 0 /\ bulkIndex' = 0 /\ chunkPending' = 0

BulkNext ==
  \/ BulkListed
  \/ BulkListFails
  \/ ChainDone
  \/ ChainFails
  \/ ChunkDone
  \/ HourTick
  \/ BulkAgain

(***************************************************************************)
(* C32: the bulk reconciliation keeps recurring: once a bulk run has       *)
(* ended, with every entry processed or with the processing of an entry    *)
(* failed, the timeout that starts the next run an hour later is set; and  *)
(* two bulk runs are never active together.                                *)
(***************************************************************************)
C32_BulkRecurs ==
  /\ bulkActive <= 1
  /\ (bulkActive = 0 /\ (bulkPc = "ended" \/ bulkEntries > 0)) => bulkTimer # NoTimer

(***************************************************************************)
(* The alerts (part_005).                                                  *)
(***************************************************************************)
\* the calls of warn explored
MaxWarnCalls == 3
\* the clock of the alerts stops here
MaxWarnTime == 4
\* 5 * HOUR, in ticks
CoolDownTicks == 2

WarnIdle == warnClock = 0 /\ warnCoolDown = 0 /\ warnCalls = << >>

\* the process has run for a while: Date.now() is not 0
WarnInit == warnClock = 1 /\ warnCoolDown = 0 /\ warnCalls = << >>

\* warn(message, log, updateType) up to its first await: a bulk call does
\* nothing; a realtime call returns when the cool-down of the message is not
\* over, and else sets it and posts the message
Warn_noCoolDown(updateType) ==
  /\ Len(warnCalls) < MaxWarnCalls
  /\ warnCalls' = Append(warnCalls,
        [updateType |-> updateType, at |-> warnClock,
         posts |-> updateType = "realtime", settled |-> updateType # "realtime"])
  /\ UNCHANGED <<warnClock, warnCoolDown>>
Warn(updateType) ==
  /\ Len(warnCalls) < MaxWarnCalls
  /\ LET posts == updateType = "realtime" /\ ~(warnCoolDown > warnClock) IN
     /\ warnCoolDown' = IF posts THEN warnClock + CoolDownTicks ELSE warnCoolDown
     /\ warnCalls' = Append(warnCalls,
           [updateType |-> updateType, at |-> warnClock,
            posts |-> posts, settled |-> ~posts])
  /\ UNCHANGED warnClock

\* client.chat.postMessage of a call has answered (for the message and for
\* the debug details): the call returns
Posted(i) ==
  /\ ~warnCalls[i].settled
  /\ warnCalls' = [warnCalls EXCEPT ![i].settled = TRUE]
  /\ UNCHANGED <<warnClock, warnCoolDown>>

WarnTick ==
  /\ warnClock < MaxWarnTime
  /\ warnClock' = warnClock + 1
  /\ UNCHANGED <<warnCoolDown, warnCalls>>

WarnNext ==
  \/ \E updateType \in {"realtime", "bulk"} : Warn(updateType)
  \/ \E i \in DOMAIN warnCalls : Posted(i)
  \/ WarnTick

\* call i is made in the cool-down window of the alert call j posted
InWindow(j, i) == warnCalls[i].at < warnCalls[j].at + CoolDownTicks

(***************************************************************************)
(* C33 as stated: after a call of warn has posted the message, every call  *)
(* with the message in the cool-down window posts nothing, and the first   *)
(* call after the window posts again, also when calls overlap.             *)
(***************************************************************************)
C33_AnyCallAfterWindowPosts ==
  \A j \in DOMAIN warnCalls : warnCalls[j].posts =>
     \A i \in (j + 1)..Len(warnCalls) :
        /\ InWindow(j, i) => ~warnCalls[i].posts
        /\ (~InWindow(j, i) /\ \A k \in (j + 1)..(i - 1) : InWindow(j, k))
              => warnCalls[i].posts

(***************************************************************************)
(* C33, amended: after a call of warn has posted the message, every call   *)
(* with the message in the cool-down window posts nothing, also when calls *)
(* overlap, and the first realtime call after the window posts again; a    *)
(* bulk call never posts.                                                  *)
(***************************************************************************)
C33_RealtimeCallAfterWindowPosts ==
  /\ \A i \in DOMAIN warnCalls : warnCalls[i].updateType = "bulk" => ~warnCalls[i].posts
  /\ \A j \in DOMAIN warnCalls : warnCalls[j].posts =>
        \A i \in (j + 1)..Len(warnCalls) :
           /\ InWindow(j, i) => ~warnCalls[i].posts
           /\ ( /\ warnCalls[i].updateType = "realtime" /\ ~InWindow(j, i)
                /\ \A k \in (j + 1)..(i - 1) :
                      warnCalls[k].updateType = "realtime" => InWindow(j, k))
                 => warnCalls[i].posts

\* an alert was posted, a call in its window that overlapped it posted
\* nothing, and a call after the window posted again
C33_Witness ==
  /\ Len(warnCalls) = 3
  /\ warnCalls[1].posts /\ ~warnCalls[1].settled
  /\ warnCalls[2].updateType = "realtime" /\ ~warnCalls[2].posts
  /\ warnCalls[3].posts /\ ~InWindow(1, 3)

(***************************************************************************)
(* Overlapping updates of one record (part_001, limits.ts, notion.ts).     *)
(***************************************************************************)
RaceIdle == landed = << >>

\* pages.update of write o has answered: the record holds its total
WriteLands(o) ==
  /\ WriteSucceeds(o)
  /\ landed' = Append(landed, o)

\* updates of one record, of both tiers, each one computing its total and
\* submitting its write in one step (update: getHours(), updateHours)
WriteRaceNext ==
  \/ /\ \E t \in UsedTypes : WriteUpTo("updateHours", t, MaxWrites + 1)
     /\ UNCHANGED landed
  \/ \E o \in DOMAIN ops : WriteLands(o)
  \/ (\E q \in Clients : QueueTick(q)) /\ UNCHANGED landed
  \/ Tick /\ UNCHANGED landed

(***************************************************************************)
(* C35: when updates of one record overlap, their totals reach the         *)
(* workspace in the order they were computed: an older total is never      *)
(* written after a newer one, so the record ends with the total computed   *)
(* last.                                                                   *)
(***************************************************************************)
C35_NewestTotalLandsLast ==
  \A a, b \in DOMAIN landed : a < b => landed[a] < landed[b]

(***************************************************************************)
(* The realtime loop in time (harvest.ts): startWatching and realtimeLoop  *)
(* with the timer of each iteration, lastCheck and the request for the     *)
(* entries updated since.  The chains of the entries are those of the      *)
(* poll above.                                                             *)
(***************************************************************************)
\* the last tick of the clock
MaxPollTime == 6

\* the interval of the loop (2 * 1000 ms), in ticks
IntervalTicks == 2

\* no time yet
NoTime == -1

\* the time at which startWatching runs
LoopStart == IntervalTicks

\* startWatching() has set lastCheck and is about to call realtimeLoop()
LoopIdle ==
  /\ pollClock = LoopStart
  /\ loopPc = "sleeping"
  /\ startedAt = NoTime
  /\ activeIterations = 0
  /\ lastCheck = LoopStart
  /\ checkTime = NoTime
  /\ issuedAt = NoTime
  /\ prevIssuedAt = NoTime
  /\ updatedAt = NoTime
  /\ entryPolled = FALSE

\* new Date(Date.now() - interval).toISOString()
NextCheck_ahead(date) == date + IntervalTicks
NextCheck(date) == date - IntervalTicks

\* realtimeLoop() up to its first await: the timer of the iteration is set,
\* checkTime and lastCheck are taken, and listTimeEntries asks for a permit.
\* It is called by startWatching, and by the iteration before once its
\* chains are over and its timer has fired.
StartIteration_early ==
  /\ loopPc = "sleeping" /\ iteration = "waiting"
  /\ loopPc' = "permit"
  /\ startedAt' = pollClock
  /\ activeIterations' = activeIterations + 1
  /\ checkTime' = lastCheck
  /\ lastCheck' = NextCheck(pollClock)
  /\ prevIssuedAt' = issuedAt
  /\ issuedAt' = NoTime
  /\ UNCHANGED <<pollClock, updatedAt, entryPolled, pollVars>>
StartIteration ==
  /\ loopPc = "sleeping" /\ iteration = "waiting"
  /\ startedAt # NoTime => pollClock - startedAt >= IntervalTicks
  /\ loopPc' = "permit"
  /\ startedAt' = pollClock
  /\ activeIterations' = activeIterations + 1
  /\ checkTime' = lastCheck
  /\ lastCheck' = NextCheck(pollClock)
  /\ prevIssuedAt' = issuedAt
  /\ issuedAt' = NoTime
  /\ UNCHANGED <<pollClock, updatedAt, entryPolled, pollVars>>

\* listTimeEntries: the permit is there, the request with updated_since
\* goes out
RequestIssued ==
  /\ loopPc = "permit"
  /\ loopPc' = "listing"
  /\ issuedAt' = pollClock
  /\ UNCHANGED <<pollClock, startedAt, activeIterations, lastCheck, checkTime,
                 prevIssuedAt, updatedAt, entryPolled, pollVars>>

\* listTimeEntries throws (its retries are used up): the iteration throws
ListFails ==
  /\ loopPc = "listing"
  /\ loopPc' = "ended"
  /\ activeIterations' = activeIterations - 1
  /\ UNCHANGED <<pollClock, startedAt, lastCheck, checkTime, issuedAt,
                 prevIssuedAt, updatedAt, entryPolled, pollVars>>

\* the requests are answered: the entries updated since checkTime are among
\* the entries, and the chain of each entry starts (the entry followed names
\* the first record or none)
EntriesListed ==
  /\ loopPc = "listing"
  /\ RealtimePoll
  /\ entry'.named \subseteq {1}
  /\ loopPc' = "chains"
  /\ entryPolled' = (entryPolled \/ (updatedAt # NoTime /\ updatedAt >= checkTime))
  /\ UNCHANGED <<pollClock, startedAt, activeIterations, lastCheck, checkTime,
                 issuedAt, prevIssuedAt, updatedAt>>

\* a step of the chain of an entry
ChainStep ==
  /\ \/ Scan
     \/ ClientsQueried
     \/ TasksQueried
     \/ Marked
     \/ Updated
     \/ EntryFails
     \/ \E e \in OtherEntries : OtherDone(e)
     \/ \E e \in OtherEntries : OtherFails(e)
  /\ UNCHANGED loopVars

\* Promise.all resolves: sendHeartbeat(), then await waiting
LoopCompletes ==
  /\ IterationCompletes
  /\ loopPc' = "sleeping"
  /\ activeIterations' = activeIterations - 1
  /\ UNCHANGED <<pollClock, startedAt, lastCheck, checkTime, issuedAt,
                 prevIssuedAt, updatedAt, entryPolled>>

\* Promise.all rejects: the iteration throws
LoopRejects ==
  /\ IterationRejects
  /\ loopPc' = "ended"
  /\ activeIterations' = activeIterations - 1
  /\ UNCHANGED <<pollClock, startedAt, lastCheck, checkTime, issuedAt,
                 prevIssuedAt, updatedAt, entryPolled>>

\* somebody updates a time entry in Harvest
EntryUpdated ==
  /\ updatedAt = NoTime
  /\ updatedAt' = pollClock
  /\ UNCHANGED <<pollClock, loopPc, startedAt, activeIterations, lastCheck,
                 checkTime, issuedAt, prevIssuedAt, entryPolled, pollVars>>

\* time passes
LoopTick ==
  /\ pollClock < MaxPollTime
  /\ pollClock' = pollClock + 1
  /\ UNCHANGED <<loopPc, startedAt, activeIterations, lastCheck, checkTime,
                 issuedAt, prevIssuedAt, updatedAt, entryPolled, pollVars>>

LoopNext ==
  \/ StartIteration
  \/ RequestIssued
  \/ ListFails
  \/ EntriesListed
  \/ ChainStep
  \/ LoopCompletes
  \/ LoopRejects
  \/ EntryUpdated
  \/ LoopTick

\* an iteration starts in this step
IterationBegins == loopPc' = "permit" /\ loopPc # "permit"

(***************************************************************************)
(* C37: at most one iteration of the realtime loop is active at any time:  *)
(* an iteration starts only when no other is active, the chain of every    *)
(* entry of the one before is over, and at least the interval has passed   *)
(* since the one before started.                                           *)
(***************************************************************************)
C37_OneIterationAtATime ==
  [][/\ activeIterations' <= 1
     /\ IterationBegins =>
          /\ activeIterations = 0
          /\ AllDone
          /\ startedAt # NoTime => pollClock - startedAt >= IntervalTicks]_vars

\* an iteration after the first has started, as soon as the timer allowed
C37_Witness ==
  /\ loopPc = "permit" /\ activeIterations = 1
  /\ prevIssuedAt # NoTime
  /\ startedAt = pollClock /\ lastCheck - checkTime = IntervalTicks

(***************************************************************************)
(* C38: successive polls leave no gap: updated_since of a poll is not      *)
(* later than the moment the request of the poll before went out (the      *)
(* start of the loop for the first poll), and a poll that is answered      *)
(* returns the update of an entry made since the loop started, unless an   *)
(* earlier poll did.                                                       *)
(***************************************************************************)
C38_NoGapBetweenPolls ==
  [][/\ IterationBegins =>
          checkTime' <= (IF issuedAt = NoTime THEN LoopStart ELSE issuedAt)
     /\ (loopPc = "listing" /\ loopPc' = "chains" /\ updatedAt # NoTime) =>
          entryPolled']_vars

\* an entry updated after the request of a poll went out is returned by a
\* later poll
C38_Witness ==
  /\ entryPolled /\ prevIssuedAt # NoTime
  /\ updatedAt > prevIssuedAt /\ checkTime <= prevIssuedAt

(***************************************************************************)
(* Specifications.  Each one runs one part of the program and holds the    *)
(* state of the other parts as it is at the start.                         *)
(***************************************************************************)
\* the parts added last, at the start
GoneIdle == deleted = {} /\ rejected = {}

FinalIdle == BeatIdle /\ BulkIdle /\ WarnIdle /\ RaceIdle /\ LoopIdle

LastIdle == HoursIdle /\ GoneIdle /\ FinalIdle

\* the parts added before the timestamp, at the start
BaseIdle ==
  /\ CardIdle /\ LimitIdle /\ CacheIdle({"page"}) /\ WatchInit
  /\ PollIdle /\ registry = {} /\ RetryInit /\ provider = "notion"
  /\ unparsable = {} /\ MatchIdle /\ SendIdle /\ CompareIdle
  /\ HoursIdle /\ GoneIdle

MoreIdle == SendIdle /\ CompareIdle /\ LastIdle

\* the parts added after the first four, at the start
ExtraIdle ==
  /\ PollIdle /\ registry = {} /\ RetryInit /\ provider = "notion"
  /\ unparsable = {} /\ MatchIdle /\ MoreIdle

InitCard == CardInit(SingleWorlds) /\ LimitIdle /\ CacheIdle({"page"}) /\ WatchInit /\ ExtraIdle

InitCardPoll == CardInit(PollWorlds) /\ LimitIdle /\ CacheIdle({"page"}) /\ WatchInit /\ ExtraIdle

InitLimits == LimitIdle /\ CardIdle /\ CacheIdle({"page"}) /\ WatchInit /\ ExtraIdle

InitCache == CacheIdle(Namespaces) /\ LimitIdle /\ CardIdle /\ WatchInit /\ ExtraIdle

InitWatch == WatchInit /\ LimitIdle /\ CardIdle /\ CacheIdle({"page"}) /\ ExtraIdle

InitWatchdog == WatchdogInit /\ LimitIdle /\ CardIdle /\ CacheIdle({"page"}) /\ ExtraIdle

\* update called on one record, once per poll
SpecCard == InitCard /\ [][CardNext /\ UNCHANGED <<limitVars, cacheVars, watchVars, extraVars>>]_vars

\* the chains of the time entries of a poll, run together
SpecCardPoll == InitCardPoll /\ [][CardNext /\ UNCHANGED <<limitVars, cacheVars, watchVars, extraVars>>]_vars

\* the read limiters under a burst of reads
SpecLimits == InitLimits /\ [][LimitNext /\ UNCHANGED <<cardVars, cacheVars, watchVars, extraVars>>]_vars

\* the write queue under a burst of writes
SpecWrite == InitLimits /\ [][WriteNext /\ UNCHANGED <<cardVars, cacheVars, watchVars, extraVars>>]_vars

\* one key of one cache under lookups, writes and time
SpecCache == InitCache /\ [][CacheNext /\ UNCHANGED <<cardVars, watchVars, extraVars>>]_vars

\* the watchdog, the realtime loop and the bulk work, with their timers
SpecWatch ==
  /\ InitWatch
  /\ [][WatchNext /\ UNCHANGED <<cardVars, limitVars, cacheVars, extraVars>>]_vars
  /\ WatchFairness

\* the watchdog set at the start, over the loops and the bulk work
SpecWatchdog ==
  /\ InitWatchdog
  /\ [][WatchdogNext /\ UNCHANGED <<cardVars, limitVars, cacheVars, extraVars>>]_vars

InitPoll ==
  /\ PollIdle /\ CardIdle /\ LimitIdle /\ CacheIdle({"page"}) /\ WatchInit
  /\ RetryInit /\ provider = "notion"
  /\ unparsable = {}
  /\ MatchIdle /\ MoreIdle

\* the iterations of realtimeLoop over their entries
SpecPoll ==
  InitPoll /\ [][PollNext /\ UNCHANGED <<cardVars, limitVars, cacheVars, watchVars, retryVars, parseVars, matchVars, moreVars>>]_vars

InitRetry ==
  /\ RetryInit /\ CardIdle /\ LimitIdle /\ CacheIdle({"page"}) /\ WatchInit
  /\ PollIdle /\ registry = {}
  /\ unparsable = {}
  /\ MatchIdle /\ MoreIdle

\* one call of withRetry under every course of its attempts
SpecRetry ==
  InitRetry /\ [][RetryNext /\ UNCHANGED <<cardVars, limitVars, cacheVars, watchVars, pollVars, parseVars, matchVars, moreVars>>]_vars

InitCardParse ==
  /\ CardInit(SingleWorlds) /\ LimitIdle /\ CacheIdle({"page"}) /\ WatchInit
  /\ PollIdle /\ registry = {} /\ RetryInit /\ provider = "notion"
  /\ unparsable \in SUBSET Nodes
  /\ MatchIdle /\ MoreIdle

\* the chain of one time entry over records some of which do not parse
SpecCardParse ==
  InitCardParse /\ [][CardParseNext /\ UNCHANGED <<limitVars, cacheVars, watchVars, extraVars>>]_vars

InitMatch ==
  /\ MatchInit /\ CardIdle /\ LimitIdle /\ CacheIdle({"page"}) /\ WatchInit
  /\ PollIdle /\ registry = {} /\ RetryInit /\ provider = "notion"
  /\ unparsable = {} /\ MoreIdle

\* one call of taskNamesMatch on every pair of names
SpecMatch ==
  InitMatch /\ [][MatchNext /\ UNCHANGED <<cardVars, limitVars, cacheVars, watchVars, pollVars, retryVars, parseVars, moreVars>>]_vars

InitClientMatch ==
  /\ ClientMatchInit /\ CardIdle /\ LimitIdle /\ CacheIdle({"page"}) /\ WatchInit
  /\ PollIdle /\ registry = {} /\ RetryInit /\ provider = "notion"
  /\ unparsable = {} /\ MoreIdle

\* one call of clientNamesMatch on every pair of names
SpecClientMatch ==
  InitClientMatch /\ [][ClientMatchNext /\ UNCHANGED <<cardVars, limitVars, cacheVars, watchVars, pollVars, retryVars, parseVars, moreVars>>]_vars

\* the reads of the workspace with their retries
SpecSend ==
  InitLimits /\ [][SendNext /\ UNCHANGED <<cardVars, cacheVars, watchVars, pollVars, retryVars, parseVars, matchVars, compareVars, lastVars>>]_vars

\* the write queue with writes of both tiers waiting
SpecWriteOrder ==
  InitLimits /\ [][WriteOrderNext /\ UNCHANGED <<cardVars, cacheVars, watchVars, extraVars>>]_vars

\* the read limiters with time that goes on and timers that fire
SpecLimitsLive ==
  /\ InitLimits
  /\ [][LimitLiveNext /\ UNCHANGED <<cardVars, cacheVars, watchVars, extraVars>>]_vars
  /\ LimitFairness

InitCompare ==
  /\ CompareInit /\ CardIdle /\ LimitIdle /\ CacheIdle({"page"}) /\ WatchInit
  /\ PollIdle /\ registry = {} /\ RetryInit /\ provider = "notion"
  /\ unparsable = {} /\ MatchIdle /\ SendIdle /\ LastIdle

\* the comparison of one update on every total and stored number
SpecCompare ==
  InitCompare /\ [][CompareAndWrite /\ UNCHANGED <<cardVars, limitVars, cacheVars, watchVars, pollVars, retryVars, parseVars, matchVars, sendVars, lastVars>>]_vars

InitHours ==
  /\ HoursInit /\ CardIdle /\ LimitIdle /\ CacheIdle({"hours"}) /\ WatchInit
  /\ PollIdle /\ registry = {} /\ RetryInit /\ provider = "harvest"
  /\ unparsable = {} /\ MatchIdle /\ SendIdle /\ CompareIdle /\ GoneIdle
  /\ FinalIdle

\* getHoursByName on every tracker of the bounds
SpecHours ==
  InitHours /\ [][GetHoursByName /\ UNCHANGED <<cardVars, limitVars, cacheVars, watchVars, pollVars, retryVars, parseVars, matchVars, sendVars, compareVars, goneVars, finalVars>>]_vars

InitCardGone ==
  /\ CardInit(SingleWorlds) /\ LimitIdle /\ CacheIdle({"page"}) /\ WatchInit
  /\ PollIdle /\ registry = {} /\ RetryInit /\ provider = "notion"
  /\ unparsable = {} /\ MatchIdle /\ SendIdle /\ CompareIdle /\ HoursIdle
  /\ deleted \in SUBSET Nodes /\ rejected = {}
  /\ FinalIdle

\* the chain of one time entry over records some of which are gone
SpecCardGone ==
  InitCardGone /\ [][CardGoneNext /\ UNCHANGED <<limitVars, cacheVars, watchVars, pollVars, retryVars, parseVars, matchVars, sendVars, compareVars, hoursVars, finalVars>>]_vars

InitBeat == BaseIdle /\ BeatInit /\ BulkIdle /\ WarnIdle /\ RaceIdle /\ LoopIdle

\* the timestamp under everything that may touch it
SpecBeat == InitBeat /\ [][BeatNext /\ UNCHANGED <<baseVars, bulkVars, warnVars, raceVars, loopVars>>]_vars

InitBulk == BaseIdle /\ BeatIdle /\ BulkInit /\ WarnIdle /\ RaceIdle /\ LoopIdle

\* the bulk loop with entries whose processing fails
SpecBulk == InitBulk /\ [][BulkNext /\ UNCHANGED <<baseVars, beatVars, warnVars, raceVars, loopVars>>]_vars

InitWarn == BaseIdle /\ BeatIdle /\ BulkIdle /\ WarnInit /\ RaceIdle /\ LoopIdle

\* calls of warn with one message, of both update types, that may overlap
SpecWarn == InitWarn /\ [][WarnNext /\ UNCHANGED <<baseVars, beatVars, bulkVars, raceVars, loopVars>>]_vars

InitLoop ==
  /\ BaseIdle /\ BeatIdle /\ BulkIdle /\ WarnIdle /\ RaceIdle /\ LoopIdle
  /\ registry = {}

\* the realtime loop with its timer and its requests
SpecLoop ==
  InitLoop /\ [][LoopNext /\ UNCHANGED <<cardVars, limitVars, cacheVars, watchVars, retryVars, parseVars, matchVars, sendVars, compareVars, hoursVars, goneVars, beatVars, bulkVars, warnVars, raceVars>>]_vars

\* the write queue under overlapping updates of one record
SpecWriteRace ==
  InitLimits /\ [][WriteRaceNext /\ UNCHANGED <<cardVars, cacheVars, watchVars, pollVars, retryVars, parseVars, matchVars, sendVars, compareVars, hoursVars, goneVars, beatVars, bulkVars, warnVars, loopVars>>]_vars
====
